---- MODULE Spec2Model ----
(***************************************************************************)
(* Model of folder-to-sample-chain: the chain builder                      *)
(* (src/audio_processing/sample_chain_builder.py, with the parts of        *)
(* audio_processor.py and audio_converter.py it calls) and the smart chain *)
(* planner (src/utils/smart_chain_planner.py, sample_chain_config.py),     *)
(* direct calls of the AudioConverter, AudioProcessor, SampleChainConfig   *)
(* and ChainExporter methods, and the planner's chains handed to the       *)
(* builder.  SpecBuild, SpecPlan and SpecUnit each run one of the first    *)
(* three and hold the variables of the others idle; SpecEndToEnd runs the  *)
(* planner and then the builder on one planned chain.                      *)
(*                                                                         *)
(* An audio buffer is a record [ndim, dtype, data]: for ndim = 2 data is a *)
(* sequence of frames, each frame a sequence of channel values; for        *)
(* ndim = 1 it is a sequence of values.  A float sample v is written as    *)
(* the integer v * 32768.  The converter and the builder receive the 2-D   *)
(* arrays load_audio_file returns.                                         *)
(***************************************************************************)
EXTENDS Integers, Sequences, FiniteSets, TLC

\* ------------------------------------------------------------- bounds
\* Largest number of file paths handed to one build_sample_chain call.
MaxFiles == 3
\* Largest configured max_samples_per_chain of the builder.
MaxCap == 4

\* ------------------------------------------------------------ helpers
Max(S) == CHOOSE x \in S : \A y \in S : y <= x

Min2(a, b) == IF a < b THEN a ELSE b

SeqMap(Op(_), s) == [i \in 1..Len(s) |-> Op(s[i])]

\* Python slice s[:k] for 0 <= k.
Take(s, k) == SubSeq(s, 1, Min2(k, Len(s)))

RECURSIVE BitAnd(_, _)
\* n & m on naturals.
BitAnd(a, b) ==
    IF a = 0 \/ b = 0 THEN 0
    ELSE (a % 2) * (b % 2) + 2 * BitAnd(a \div 2, b \div 2)

\* str.lower on ASCII character codes.
LowerChar(c) == IF c >= 65 /\ c <= 90 THEN c + 32 ELSE c

lower(s) == [i \in 1..Len(s) |-> LowerChar(s[i])]

\* ------------------------------------------------- AudioProcessor
\* audio_processor.py: n > 0 and (n & (n - 1)) == 0
is_power_of_two(n) == n > 0 /\ BitAnd(n, n - 1) = 0

RECURSIVE NextPowLoop(_, _)
\* the loop  "while power < n: power *= 2"
NextPowLoop(power, n) == IF power < n THEN NextPowLoop(power * 2, n) ELSE power

\* Faulty variant: the power of two strictly above n.
get_next_power_of_two_above(n) == IF n <= 0 THEN 1 ELSE NextPowLoop(1, n + 1)

get_next_power_of_two(n) == IF n <= 0 THEN 1 ELSE NextPowLoop(1, n)

\* LIBROSA_AVAILABLE: set once when audio_processor.py is imported, True
\* when the optional MP3 decoder librosa can be imported.
VARIABLE LIBROSA_AVAILABLE

\* Suffixes as character codes.
SuffixWav == <<46, 119, 97, 118>>

SuffixAiff == <<46, 97, 105, 102, 102>>

SuffixFlac == <<46, 102, 108, 97, 99>>

SuffixMp3 == <<46, 109, 112, 51>>

\* AudioProcessor.__init__: self.supported_formats, '.mp3' removed when
\* librosa is not available.
supported_formats ==
    IF LIBROSA_AVAILABLE THEN {SuffixWav, SuffixAiff, SuffixFlac, SuffixMp3}
    ELSE {SuffixWav, SuffixAiff, SuffixFlac}

\* The samples a decoder yields for the file with path id p: distinct per
\* file, frame and channel, never zero, always even (so that a two-channel
\* mean is exact).
FileSample(p, f, c) == 2 * (100 * p + 10 * f + c)

\* sf.read(path): float64; a mono file comes back 1-D (one value per
\* frame), any other file as (frames, channels).
sf_read(fp) ==
    IF fp.channels = 1
    THEN [ndim |-> 1, dtype |-> "float64",
          data |-> [f \in 1..fp.length |-> FileSample(fp.path, f, 1)]]
    ELSE [ndim |-> 2, dtype |-> "float64",
          data |-> [f \in 1..fp.length |->
                      [c \in 1..fp.channels |-> FileSample(fp.path, f, c)]]]

\* librosa.load(path, sr=None, mono=False): float32; a mono file comes back
\* 1-D, any other file as (channels, samples).
librosa_load(fp) ==
    IF fp.channels = 1
    THEN [ndim |-> 1, dtype |-> "float32",
          data |-> [f \in 1..fp.length |-> FileSample(fp.path, f, 1)]]
    ELSE [ndim |-> 2, dtype |-> "float32",
          data |-> [c \in 1..fp.channels |->
                      [f \in 1..fp.length |-> FileSample(fp.path, f, c)]]]

\* audio_data.T of a 2-D array.
Transpose(a) ==
    [ndim |-> 2, dtype |-> a.dtype,
     data |-> [f \in 1..Len(a.data[1]) |-> [c \in 1..Len(a.data) |-> a.data[c][f]]]]

\* audio_data.reshape(-1, 1) of a 1-D array.
ReshapeColumn(a) ==
    [ndim |-> 2, dtype |-> a.dtype, data |-> [f \in 1..Len(a.data) |-> << a.data[f] >>]]

\* Bit depth inferred from sf.info(path).subtype.
SubtypeBits(subtype) ==
    IF subtype = "PCM_16" THEN 16
    ELSE IF subtype = "PCM_24" THEN 24
    ELSE IF subtype = "PCM_32" THEN 32
    ELSE IF subtype \in {"FLOAT"} THEN 32
    ELSE 16

\* The exception load_audio_file raises for the file behind a path, "None"
\* when it returns: existence first, then the suffix, then whatever the
\* decoder raises, wrapped in RuntimeError.
load_audio_file_error(fp) ==
    IF ~fp.exists THEN "FileNotFoundError"
    ELSE IF lower(fp.suffix) \notin supported_formats THEN "ValueError"
    ELSE IF lower(fp.suffix) = SuffixMp3 /\ ~LIBROSA_AVAILABLE THEN "RuntimeError"
    ELSE IF ~fp.decodes THEN "RuntimeError"
    ELSE "None"

\* Faulty variant: a mono array is handed on as decoded, 1-D.
load_audio_file_no_reshape(fp) ==
    LET raw == IF lower(fp.suffix) = SuffixMp3 THEN librosa_load(fp) ELSE sf_read(fp)
    IN [audio_data  |-> IF raw.ndim > 1 /\ lower(fp.suffix) = SuffixMp3 THEN Transpose(raw) ELSE raw,
        sample_rate |-> fp.sample_rate,
        bit_depth   |-> IF lower(fp.suffix) = SuffixMp3 THEN 16 ELSE SubtypeBits(fp.subtype),
        channels    |-> fp.channels]

\* load_audio_file on a file that loads: (audio_data, sample_rate,
\* bit_depth, channels).
load_audio_file(fp) ==
    IF lower(fp.suffix) = SuffixMp3
    THEN LET raw == librosa_load(fp)
             audio_data == IF raw.ndim > 1 THEN Transpose(raw) ELSE raw
         IN [audio_data  |-> IF audio_data.ndim = 1 THEN ReshapeColumn(audio_data) ELSE audio_data,
             sample_rate |-> fp.sample_rate,
             bit_depth   |-> 16,
             channels    |-> IF audio_data.ndim = 1 THEN 1 ELSE Len(audio_data.data[1])]
    ELSE LET audio_data == sf_read(fp)
         IN [audio_data  |-> IF audio_data.ndim = 1 THEN ReshapeColumn(audio_data) ELSE audio_data,
             sample_rate |-> fp.sample_rate,
             bit_depth   |-> SubtypeBits(fp.subtype),
             channels    |-> IF audio_data.ndim = 1 THEN 1 ELSE Len(audio_data.data[1])]

\* load_audio_file raises (FileNotFoundError, ValueError or RuntimeError).
load_audio_file_raises(fp) == load_audio_file_error(fp) # "None"

\* ------------------------------------------------- AudioConverter
\* int(len(audio_data) * (target_rate / current_rate)): truncation of the
\* product (exact for the rates and lengths of this model).
ResampledLength(len, current_rate, target_rate) == (len * target_rate) \div current_rate

\* convert_sample_rate: unchanged when the rates match, else new_length
\* frames per channel, float64.  The resampling kernel (scipy's FFT
\* resampler) is abstracted to a zero-order hold of the source channel: the
\* frame count, channel count and the source each value depends on are kept.
convert_sample_rate(audio_data, current_rate, target_rate) ==
    IF current_rate = target_rate THEN audio_data
    ELSE LET n == Len(audio_data.data)
             new_length == ResampledLength(n, current_rate, target_rate)
         IN [ndim |-> 2, dtype |-> "float64",
             data  |-> [j \in 1..new_length |->
                          audio_data.data[((j - 1) * n) \div new_length + 1]]]

NumFrames(buf) == Len(buf.data)

NumChannels(buf) == Len(buf.data[1])

\* np.zeros((frames, channels)): float64 silence.
Zeros(frames, channels) ==
    [ndim |-> 2, dtype |-> "float64", data |-> [f \in 1..frames |-> [c \in 1..channels |-> 0]]]

RECURSIVE SumSeq(_)
SumSeq(s) == IF s = <<>> THEN 0 ELSE Head(s) + SumSeq(Tail(s))

\* np.mean(audio_data, axis=1, keepdims=True): one channel, the mean of the
\* frame's channels (exact on the even samples of this model), float64.
MeanChannels(audio_data) ==
    [ndim |-> 2, dtype |-> "float64",
     data  |-> [f \in 1..Len(audio_data.data) |->
                  << SumSeq(audio_data.data[f]) \div Len(audio_data.data[f]) >>]]

\* audio_data[:, 0:k]: the first k channels, dtype kept.
FirstChannels(audio_data, k) ==
    [ndim |-> 2, dtype |-> audio_data.dtype,
     data  |-> [f \in 1..Len(audio_data.data) |-> Take(audio_data.data[f], k)]]

\* np.column_stack([audio_data[:, 0], audio_data[:, 0]])
DuplicateMono(audio_data) ==
    [ndim |-> 2, dtype |-> audio_data.dtype,
     data  |-> [f \in 1..Len(audio_data.data) |->
                  << audio_data.data[f][1], audio_data.data[f][1] >>]]

\* Faulty variant: every target other than 1 or 2 is refused, equal or not.
convert_channels_raises_any_unsupported(current_channels, target_channels) ==
    target_channels \notin {1, 2}

\* convert_channels raises ValueError: reached only when the counts differ
\* and the target is neither 1 nor 2.
convert_channels_raises(current_channels, target_channels) ==
    /\ current_channels # target_channels
    /\ target_channels \notin {1, 2}

\* Faulty variant: no early return when the counts are equal.
convert_channels_no_passthrough(audio_data, current_channels, target_channels) ==
    IF target_channels = 1
    THEN IF current_channels = 2 THEN MeanChannels(audio_data) ELSE FirstChannels(audio_data, 1)
    ELSE IF current_channels = 1 THEN DuplicateMono(audio_data) ELSE FirstChannels(audio_data, 2)

convert_channels(audio_data, current_channels, target_channels) ==
    IF current_channels = target_channels THEN audio_data
    ELSE IF target_channels = 1
         THEN IF current_channels = 2 THEN MeanChannels(audio_data)
              ELSE FirstChannels(audio_data, 1)
         ELSE \* target_channels = 2 (any other target raises)
              IF current_channels = 1 THEN DuplicateMono(audio_data)
              ELSE FirstChannels(audio_data, 2)

IsFloat(dtype) == dtype \in {"float32", "float64"}

\* np.clip(x, -1.0, 1.0) in units of 1/32768.
Clip(v) == IF v < -32768 THEN -32768 ELSE IF v > 32768 THEN 32768 ELSE v

\* Step "normalize to [-1, 1]" of convert_bit_depth, in units of 1/32768:
\* floats pass through, integer PCM is divided by its full scale.
NormalizeSample(v, dtype, current_bits) ==
    IF IsFloat(dtype) THEN v
    ELSE IF current_bits = 16 THEN v
    ELSE IF current_bits = 24 THEN v \div 256
    ELSE IF current_bits = 32 THEN v \div 65536
    ELSE v * 32768

\* (clip(x + dither) * fullscale).astype(int): the product lies strictly
\* between k-1 and k+1 full-scale steps of the target and numpy truncates
\* toward zero.  The triangular dither is below half a target step; its
\* outcome is the sign dither_sign (0 when no dither is applied).
\* `scale` is the number of target steps per unit: 1 for 16 bit, 256 for 24.
Quantize(v, scale, dither_sign) ==
    LET k == Clip(v) * scale
    IN IF k > 0 THEN (IF dither_sign > 0 THEN k ELSE k - 1)
       ELSE IF k < 0 THEN (IF dither_sign < 0 THEN k ELSE k + 1)
       ELSE 0

MapSamples(audio_data, dtype, Op(_)) ==
    [ndim |-> 2, dtype |-> dtype,
     data  |-> [f \in 1..Len(audio_data.data) |->
                  [c \in 1..Len(audio_data.data[f]) |-> Op(audio_data.data[f][c])]]]

\* convert_bit_depth raises ValueError: reached only when the depths differ
\* and the target is none of 16, 24, 32.
convert_bit_depth_raises(current_bits, target_bits) ==
    /\ current_bits # target_bits
    /\ target_bits \notin {16, 24, 32}

\* dithering: the converter's config flag; dither_sign: the outcome of
\* np.random.triangular for this call.
convert_bit_depth(audio_data, current_bits, target_bits, dithering, dither_sign) ==
    IF current_bits = target_bits THEN audio_data
    ELSE LET s == IF dithering /\ target_bits < current_bits THEN dither_sign ELSE 0
             Norm(v) == NormalizeSample(v, audio_data.dtype, current_bits)
             To16(v) == Quantize(Norm(v), 1, s)
             To24(v) == Quantize(Norm(v), 256, s)
             To32(v) == Clip(Norm(v))
         IN IF target_bits = 16 THEN MapSamples(audio_data, "int16", To16)
            ELSE IF target_bits = 24 THEN MapSamples(audio_data, "int32", To24)
            ELSE MapSamples(audio_data, "float32", To32)

\* convert_audio raises when one of the steps it runs raises.
convert_audio_raises(current_bits, current_channels, target_bits, target_channels) ==
    \/ convert_channels_raises(current_channels, target_channels)
    \/ convert_bit_depth_raises(current_bits, target_bits)

\* Faulty variant: the bit depth is converted first, then channels, then rate.
convert_audio_bits_first(audio_data, current_rate, current_bits, current_channels, target_rate, target_bits, target_channels, dithering, dither_sign) ==
    LET s1 == IF current_bits # target_bits
              THEN convert_bit_depth(audio_data, current_bits, target_bits, dithering, dither_sign)
              ELSE audio_data
        s2 == IF current_channels # target_channels
              THEN convert_channels(s1, current_channels, target_channels)
              ELSE s1
    IN IF current_rate # target_rate
       THEN convert_sample_rate(s2, current_rate, target_rate)
       ELSE s2

\* convert_audio: copy, then sample rate -> channels -> bit depth, each step
\* only when source and target differ.
convert_audio(audio_data, current_rate, current_bits, current_channels, target_rate, target_bits, target_channels, dithering, dither_sign) ==
    LET s1 == IF current_rate # target_rate
              THEN convert_sample_rate(audio_data, current_rate, target_rate)
              ELSE audio_data
        s2 == IF current_channels # target_channels
              THEN convert_channels(s1, current_channels, target_channels)
              ELSE s1
    IN IF current_bits # target_bits
       THEN convert_bit_depth(s2, current_bits, target_bits, dithering, dither_sign)
       ELSE s2

\* ------------------------------------------------- SampleChainBuilder
\* _load_audio_files: the files that load, in the order of file_paths; a
\* file whose load raises is skipped.
RECURSIVE _load_audio_files_stop_at_failure(_)
\* Faulty variant: the first file that fails to load ends the loop.
_load_audio_files_stop_at_failure(paths) ==
    IF paths = <<>> \/ load_audio_file_raises(Head(paths)) THEN <<>>
    ELSE LET l == load_audio_file(Head(paths))
         IN << [file_path       |-> Head(paths).path,
                audio_data      |-> l.audio_data,
                sample_rate     |-> l.sample_rate,
                bit_depth       |-> l.bit_depth,
                channels        |-> l.channels,
                original_length |-> Len(l.audio_data.data)] >> \o _load_audio_files_stop_at_failure(Tail(paths))

RECURSIVE _load_audio_files(_)
_load_audio_files(paths) ==
    IF paths = <<>> THEN <<>>
    ELSE LET fp == Head(paths)
             rest == _load_audio_files(Tail(paths))
         IN IF load_audio_file_raises(fp) THEN rest
            ELSE LET l == load_audio_file(fp)
                 IN << [file_path       |-> fp.path,
                        audio_data      |-> l.audio_data,
                        sample_rate     |-> l.sample_rate,
                        bit_depth       |-> l.bit_depth,
                        channels        |-> l.channels,
                        original_length |-> Len(l.audio_data.data)] >> \o rest

\* _get_target_sample_length: the maximum of every raw original_length and,
\* for the files at another rate, of int(original_length * ratio).
_get_target_sample_length(files, target_sample_rate) ==
    LET raw == {files[i].original_length : i \in 1..Len(files)}
        converted == {ResampledLength(files[i].original_length, files[i].sample_rate, target_sample_rate) :
                        i \in {j \in 1..Len(files) : files[j].sample_rate # target_sample_rate}}
    IN Max(raw \cup converted)

\* One iteration of _normalize_sample_lengths: resample, then zero-pad at
\* the end or truncate to target_length.
NormalizeOne(audio, target_length, target_sample_rate) ==
    LET audio_data == IF audio.sample_rate # target_sample_rate
                      THEN convert_sample_rate(audio.audio_data, audio.sample_rate, target_sample_rate)
                      ELSE audio.audio_data
        n == Len(audio_data.data)
    IN IF n < target_length
       THEN [ndim |-> 2, dtype |-> "float64",
             data  |-> audio_data.data \o Zeros(target_length - n, audio.channels).data]
       ELSE IF n > target_length
       THEN [ndim |-> 2, dtype |-> audio_data.dtype, data |-> Take(audio_data.data, target_length)]
       ELSE audio_data

_normalize_sample_lengths(files, target_length, target_sample_rate) ==
    [i \in 1..Len(files) |-> NormalizeOne(files[i], target_length, target_sample_rate)]

\* Faulty variant: the count is capped but never rounded up to a power of two.
_get_final_sample_count_unrounded(current_count, enforce_power_of_two, max_samples) ==
    IF current_count > max_samples /\ enforce_power_of_two THEN max_samples ELSE current_count

_get_final_sample_count(current_count, enforce_power_of_two, max_samples) ==
    IF ~enforce_power_of_two THEN current_count
    ELSE LET target_count == get_next_power_of_two(current_count)
         IN IF target_count > max_samples THEN max_samples ELSE target_count

\* Faulty variant: truncation keeps the last target_count slots.
_pad_samples_keep_last(slots, target_count, pad_strategy) ==
    IF Len(slots) >= target_count THEN SubSeq(slots, Len(slots) - target_count + 1, Len(slots))
    ELSE slots \o [k \in 1..(target_count - Len(slots)) |-> slots[Len(slots)]]

\* Faulty variant: repeat-last repeats the first slot, silence is one channel wide.
_pad_samples_repeat_first(slots, target_count, pad_strategy) ==
    IF Len(slots) >= target_count THEN Take(slots, target_count)
    ELSE IF pad_strategy = "repeat-last"
         THEN slots \o [k \in 1..(target_count - Len(slots)) |-> slots[1]]
         ELSE IF pad_strategy = "silence"
         THEN slots \o [k \in 1..(target_count - Len(slots)) |-> Zeros(NumFrames(slots[1]), 1)]
         ELSE slots

\* _pad_samples_to_power_of_two: truncate to target_count, or append
\* target_count - len(samples) slots by the pad strategy.
_pad_samples_to_power_of_two(slots, target_count, pad_strategy) ==
    IF Len(slots) >= target_count THEN Take(slots, target_count)
    ELSE LET padding_needed == target_count - Len(slots)
         IN IF pad_strategy = "repeat-last"
            THEN slots \o [k \in 1..padding_needed |-> slots[Len(slots)]]
            ELSE IF pad_strategy = "silence"
            THEN slots \o [k \in 1..padding_needed |->
                             Zeros(NumFrames(slots[1]), NumChannels(slots[1]))]
            ELSE slots

\* current_bits = 32 if sample.dtype in [np.float32, np.float64] else 16
CurrentBits(sample) == IF IsFloat(sample.dtype) THEN 32 ELSE 16

\* Faulty variant: an unsupported target format is never reported.
_convert_samples_never_raises(slots, target_bit_depth, target_channels) == FALSE

\* _convert_samples_to_target_format raises when convert_audio raises for a slot.
_convert_samples_raises(slots, target_bit_depth, target_channels) ==
    \E i \in 1..Len(slots) :
        convert_audio_raises(CurrentBits(slots[i]), NumChannels(slots[i]), target_bit_depth, target_channels)

_convert_samples_to_target_format(slots, cfg, dither_sign) ==
    [i \in 1..Len(slots) |->
        convert_audio(slots[i], cfg.target_sample_rate, CurrentBits(slots[i]), NumChannels(slots[i]),
                      cfg.target_sample_rate, cfg.target_bit_depth, cfg.target_channels,
                      cfg.dithering, dither_sign)]

RECURSIVE ConcatFrames(_)
ConcatFrames(slots) ==
    IF slots = <<>> THEN <<>> ELSE Head(slots).data \o ConcatFrames(Tail(slots))

\* _concatenate_samples: np.vstack of the slots (samples[0] of an empty list
\* raises IndexError).
_concatenate_samples(slots) == [ndim |-> 2, dtype |-> slots[1].dtype, data |-> ConcatFrames(slots)]

\* _create_chain_metadata (created_at, a wall-clock stamp, and group_key, a
\* label passed through, are left out; durations are frames over rate).
_create_chain_metadata(paths, sample_count, sample_length, chain, cfg) ==
    [sample_count    |-> sample_count,
     sample_length   |-> sample_length,
     sample_duration |-> << sample_length, cfg.target_sample_rate >>,
     total_duration  |-> << Len(chain.data), cfg.target_sample_rate >>,
     sample_rate     |-> cfg.target_sample_rate,
     bit_depth       |-> cfg.target_bit_depth,
     channels        |-> cfg.target_channels,
     original_files  |-> [i \in 1..Len(paths) |-> paths[i].path],
     power_of_two    |-> is_power_of_two(sample_count),
     pad_strategy    |-> cfg.pad_strategy]

\* ------------------------------------------------------ strings, paths
\* A string is the sequence of its character codes; a path is the sequence
\* of its parts (pathlib's parts of a relative path), the last the filename.

RECURSIVE SeqLess(_, _)
\* Python's < on strings: the first differing character decides, a proper
\* prefix is smaller.
SeqLess(a, b) ==
    IF b = <<>> THEN FALSE
    ELSE IF a = <<>> THEN TRUE
    ELSE IF Head(a) # Head(b) THEN Head(a) < Head(b)
    ELSE SeqLess(Tail(a), Tail(b))

RECURSIVE PathLess(_, _)
\* pathlib's < on paths: the lists of parts compared part by part.
PathLess(a, b) ==
    IF b = <<>> THEN FALSE
    ELSE IF a = <<>> THEN TRUE
    ELSE IF Head(a) # Head(b) THEN SeqLess(Head(a), Head(b))
    ELSE PathLess(Tail(a), Tail(b))

RECURSIVE InsertPath(_, _)
InsertPath(x, s) ==
    IF s = <<>> THEN << x >>
    ELSE IF PathLess(x, Head(s)) THEN << x >> \o s
    ELSE << Head(s) >> \o InsertPath(x, Tail(s))

RECURSIVE sorted_paths(_)
\* sorted(list of Path): ascending and stable.
sorted_paths(s) ==
    IF s = <<>> THEN <<>>
    ELSE InsertPath(s[Len(s)], sorted_paths(SubSeq(s, 1, Len(s) - 1)))

RECURSIVE InsertString(_, _)
InsertString(x, s) ==
    IF s = <<>> THEN << x >>
    ELSE IF SeqLess(x, Head(s)) THEN << x >> \o s
    ELSE << Head(s) >> \o InsertString(x, Tail(s))

RECURSIVE sorted_strings(_)
\* sorted(list of str): ascending and stable.
sorted_strings(s) ==
    IF s = <<>> THEN <<>>
    ELSE InsertString(s[Len(s)], sorted_strings(SubSeq(s, 1, Len(s) - 1)))


\* pattern in s
Contains(pattern, s) ==
    \E i \in 0..(Len(s) - Len(pattern)) : SubSeq(s, i + 1, i + Len(pattern)) = pattern

\* s.startswith(prefix)
StartsWith(s, prefix) == Len(s) >= Len(prefix) /\ SubSeq(s, 1, Len(prefix)) = prefix

\* file_path.name
PathName(path) == path[Len(path)]

\* file_path.parent.name ('' when the path has no directory part)
ParentName(path) == IF Len(path) >= 2 THEN path[Len(path) - 1] ELSE <<>>

\* file_path.parent.parent.name
GrandparentName(path) == IF Len(path) >= 3 THEN path[Len(path) - 2] ELSE <<>>

\* file_path.stem: the name up to its last dot, unless that dot is the
\* first or the last character.
PathStem(path) ==
    LET name == PathName(path)
        dots == {i \in 1..Len(name) : name[i] = 46}
    IN IF dots = {} THEN name
       ELSE IF Max(dots) > 1 /\ Max(dots) < Len(name) THEN SubSeq(name, 1, Max(dots) - 1)
       ELSE name

RECURSIVE DecimalDigits(_)
DecimalDigits(n) == IF n < 10 THEN << 48 + n >> ELSE DecimalDigits(n \div 10) \o << 48 + (n % 10) >>

\* str(n) for n >= 0.
IntToStr(n) == DecimalDigits(n)

\* ------------------------------------------------- SampleChainConfig
\* hihat_patterns['closed']: closedhh, clsdhh, closed, clsd
ClosedPatterns == << <<99, 108, 111, 115, 101, 100, 104, 104>>, <<99, 108, 115, 100, 104, 104>>, <<99, 108, 111, 115, 101, 100>>, <<99, 108, 115, 100>> >>

\* hihat_patterns['open']: openhh, opennhh, open, opn
OpenPatterns == << <<111, 112, 101, 110, 104, 104>>, <<111, 112, 101, 110, 110, 104, 104>>, <<111, 112, 101, 110>>, <<111, 112, 110>> >>

\* skip_words of extract_base_name
SkipWords == {ClosedPatterns[i] : i \in 1..Len(ClosedPatterns)} \cup {OpenPatterns[i] : i \in 1..Len(OpenPatterns)}

MatchesAny(patterns, s) == \E i \in 1..Len(patterns) : Contains(patterns[i], s)

\* Faulty variant: the filename is tried before the parent directory name.
is_hihat_file_filename_first(path) ==
    LET parent_dir == lower(ParentName(path))
        filename == lower(PathName(path))
    IN IF MatchesAny(ClosedPatterns, filename) THEN << TRUE, "closed" >>
       ELSE IF MatchesAny(OpenPatterns, filename) THEN << TRUE, "open" >>
       ELSE IF MatchesAny(ClosedPatterns, parent_dir) THEN << TRUE, "closed" >>
       ELSE IF MatchesAny(OpenPatterns, parent_dir) THEN << TRUE, "open" >>
       ELSE << FALSE, "None" >>

\* is_hihat_file: (is_hihat, hihat_type); the parent directory name is
\* tried first, 'closed' before 'open', then the filename.
is_hihat_file(path) ==
    LET parent_dir == lower(ParentName(path))
        filename == lower(PathName(path))
    IN IF MatchesAny(ClosedPatterns, parent_dir) THEN << TRUE, "closed" >>
       ELSE IF MatchesAny(OpenPatterns, parent_dir) THEN << TRUE, "open" >>
       ELSE IF MatchesAny(ClosedPatterns, filename) THEN << TRUE, "closed" >>
       ELSE IF MatchesAny(OpenPatterns, filename) THEN << TRUE, "open" >>
       ELSE << FALSE, "None" >>

\* The characters [\s_-] of the split pattern: space, tab, underscore, hyphen.
IsSeparator(c) == c \in {32, 9, 95, 45}

RECURSIVE SplitWords(_, _, _)
\* re.split(r'[\s_-]+', s): s cut at every run of separators; a leading or
\* trailing run leaves an empty first or last word.  `word` is the word
\* being read, `in_run` whether the last character was a separator.
SplitWords(s, word, in_run) ==
    IF s = <<>> THEN << word >>
    ELSE IF IsSeparator(Head(s))
         THEN IF in_run THEN SplitWords(Tail(s), word, TRUE)
              ELSE << word >> \o SplitWords(Tail(s), <<>>, TRUE)
         ELSE SplitWords(Tail(s), word \o << Head(s) >>, FALSE)

RECURSIVE JoinWords(_)
\* ' '.join(words)
JoinWords(words) ==
    IF words = <<>> THEN <<>>
    ELSE IF Len(words) = 1 THEN words[1]
    ELSE words[1] \o << 32 >> \o JoinWords(Tail(words))

IsKeptWord(word) == lower(word) \notin SkipWords

\* Faulty variant: number words are dropped along with the type markers.
extract_base_name_drop_numbers(path) ==
    LET filename == PathStem(path)
        words == SplitWords(filename, <<>>, FALSE)
        IsNumber(word) == word # <<>> /\ \A i \in 1..Len(word) : word[i] >= 48 /\ word[i] <= 57
        Keep(word) == IsKeptWord(word) /\ ~IsNumber(word)
        filtered_words == SelectSeq(words, Keep)
    IN IF filtered_words # <<>> THEN JoinWords(filtered_words) ELSE filename

\* Faulty variant: no fall-back to the stem when every word was dropped.
extract_base_name_no_fallback(path) ==
    LET filename == PathStem(path)
        words == SplitWords(filename, <<>>, FALSE)
        filtered_words == SelectSeq(words, IsKeptWord)
    IN JoinWords(filtered_words)

extract_base_name(path) ==
    LET filename == PathStem(path)
        words == SplitWords(filename, <<>>, FALSE)
        filtered_words == SelectSeq(words, IsKeptWord)
    IN IF filtered_words # <<>> THEN JoinWords(filtered_words) ELSE filename

\* ------------------------------------------------- SmartChainPlanner
\* A Python dict is the sequence of its items [key, value] in insertion
\* order, with no key twice.
DictKeys(d) == {d[i].key : i \in 1..Len(d)}

DictGet(d, k) == d[CHOOSE i \in 1..Len(d) : d[i].key = k].value

\* d[k] = v: replaces the value of a key already there, else appends.
DictPut(d, k, v) ==
    IF k \in DictKeys(d)
    THEN [i \in 1..Len(d) |-> IF d[i].key = k THEN [key |-> k, value |-> v] ELSE d[i]]
    ELSE Append(d, [key |-> k, value |-> v])

RECURSIVE DictUpdate(_, _)
\* d.update(other)
DictUpdate(d, other) ==
    IF other = <<>> THEN d
    ELSE DictUpdate(DictPut(d, Head(other).key, Head(other).value), Tail(other))

RECURSIVE Distinct(_)
\* The elements of s, each once, in order of first appearance.
Distinct(s) ==
    IF s = <<>> THEN <<>>
    ELSE LET rest == Distinct(SubSeq(s, 1, Len(s) - 1))
             x == s[Len(s)]
         IN IF \E i \in 1..Len(rest) : rest[i] = x THEN rest ELSE Append(rest, x)

\* The files of one type and one base name, in input order.
HihatsOf(files, base_name, hihat_type) ==
    LET Keep(path) == /\ is_hihat_file(path)[2] = hihat_type
                      /\ extract_base_name(path) = base_name
    IN SelectSeq(files, Keep)

\* _create_interleaved_sequence: the chain's hi-hat files regrouped by base
\* name in sorted order, closed before open.
RECURSIVE InterleaveGroups(_, _)
InterleaveGroups(files, base_names) ==
    IF base_names = <<>> THEN <<>>
    ELSE sorted_paths(HihatsOf(files, Head(base_names), "closed"))
         \o sorted_paths(HihatsOf(files, Head(base_names), "open"))
         \o InterleaveGroups(files, Tail(base_names))

IsHihatPath(path) == is_hihat_file(path)[1]

_create_interleaved_sequence(files) ==
    LET hats == SelectSeq(files, IsHihatPath)
    IN InterleaveGroups(hats, sorted_strings(Distinct(SeqMap(extract_base_name, hats))))

\* 'hats'
HatsPrefix == <<104, 97, 116, 115>>

\* Faulty variant: sample_count is the cap, not the number of files.
_create_chain_from_files_count_is_cap(files, chain_name, additional_metadata, max_samples_per_chain) ==
    LET base == [type |-> IF StartsWith(chain_name, HatsPrefix) THEN "hihat" ELSE "regular",
                 sample_count |-> max_samples_per_chain,
                 chain_number |-> 1,
                 max_samples_per_chain |-> max_samples_per_chain]
        metadata == additional_metadata @@ base
    IN [files    |-> files,
        metadata |-> IF StartsWith(chain_name, HatsPrefix)
                     THEN [interleaved_sequence |-> _create_interleaved_sequence(files)] @@ metadata
                     ELSE metadata]

\* _create_chain_from_files: {files, metadata}.  The estimated duration and
\* size, which come from reading the files' headers, are left out.
_create_chain_from_files(files, chain_name, additional_metadata, max_samples_per_chain) ==
    LET base == [type |-> IF StartsWith(chain_name, HatsPrefix) THEN "hihat" ELSE "regular",
                 sample_count |-> Len(files),
                 chain_number |-> 1,
                 max_samples_per_chain |-> max_samples_per_chain]
        metadata == additional_metadata @@ base
    IN [files    |-> files,
        metadata |-> IF StartsWith(chain_name, HatsPrefix)
                     THEN [interleaved_sequence |-> _create_interleaved_sequence(files)] @@ metadata
                     ELSE metadata]

\* f"hats_{chain_counter}"
HatsName(chain_counter) == HatsPrefix \o << 95 >> \o IntToStr(chain_counter)

RECURSIVE HihatLoop(_, _, _, _)
\* The loop over sorted_groups of _create_combined_hihat_chains.  st holds
\* chains, chain_counter, current_chain_files, current_chain_metadata.
HihatLoop(files, base_names, st, max_samples_per_chain) ==
    IF base_names = <<>> THEN st
    ELSE LET base_name == Head(base_names)
             closed_files == sorted_paths(HihatsOf(files, base_name, "closed"))
             open_files == sorted_paths(HihatsOf(files, base_name, "open"))
             all_files == closed_files \o open_files
             md == st.current_chain_metadata
             flushed == IF st.current_chain_files # <<>>
                        THEN [st EXCEPT !.chains = DictPut(st.chains, HatsName(st.chain_counter),
                                                     _create_chain_from_files(st.current_chain_files, HatsName(st.chain_counter), md, max_samples_per_chain)),
                                        !.chain_counter = st.chain_counter + 1]
                        ELSE st
             next == IF Len(st.current_chain_files) + Len(all_files) > max_samples_per_chain
                     THEN [flushed EXCEPT !.current_chain_files = all_files,
                                          !.current_chain_metadata =
                                              [closed_count |-> Len(closed_files),
                                               open_count   |-> Len(open_files),
                                               hat_names    |-> << base_name >>,
                                               total_files  |-> Len(all_files)]]
                     ELSE [st EXCEPT !.current_chain_files = st.current_chain_files \o all_files,
                                     !.current_chain_metadata =
                                         [closed_count |-> md.closed_count + Len(closed_files),
                                          open_count   |-> md.open_count + Len(open_files),
                                          hat_names    |-> Append(md.hat_names, base_name),
                                          total_files  |-> md.total_files + Len(all_files)]]
         IN HihatLoop(files, Tail(base_names), next, max_samples_per_chain)

\* Faulty variant: the groups are taken in the order the input gives them.
_create_combined_hihat_chains_unsorted(hihat_files, max_samples_per_chain) ==
    IF hihat_files = <<>> THEN <<>>
    ELSE LET groups == Distinct(SeqMap(extract_base_name, hihat_files))
             st0 == [chains |-> <<>>,
                     chain_counter |-> 1,
                     current_chain_files |-> <<>>,
                     current_chain_metadata |-> [closed_count |-> 0, open_count |-> 0, hat_names |-> <<>>, total_files |-> 0]]
             st == HihatLoop(hihat_files, groups, st0, max_samples_per_chain)
         IN IF st.current_chain_files # <<>>
            THEN DictPut(st.chains, HatsName(st.chain_counter),
                         _create_chain_from_files(st.current_chain_files, HatsName(st.chain_counter), st.current_chain_metadata, max_samples_per_chain))
            ELSE st.chains

\* _create_combined_hihat_chains: hihat_files are the paths classified as
\* hi-hats, in input order.
_create_combined_hihat_chains(hihat_files, max_samples_per_chain) ==
    IF hihat_files = <<>> THEN <<>>
    ELSE LET sorted_groups == sorted_strings(Distinct(SeqMap(extract_base_name, hihat_files)))
             st0 == [chains |-> <<>>,
                     chain_counter |-> 1,
                     current_chain_files |-> <<>>,
                     current_chain_metadata |-> [closed_count |-> 0, open_count |-> 0, hat_names |-> <<>>, total_files |-> 0]]
             st == HihatLoop(hihat_files, sorted_groups, st0, max_samples_per_chain)
         IN IF st.current_chain_files # <<>>
            THEN DictPut(st.chains, HatsName(st.chain_counter),
                         _create_chain_from_files(st.current_chain_files, HatsName(st.chain_counter), st.current_chain_metadata, max_samples_per_chain))
            ELSE st.chains

\* 'root'
RootKey == <<114, 111, 111, 116>>

\* The directory key of a regular file: "<grandparent>/<parent>", the parent
\* name alone when there is no grandparent name, "root" with no parent name.
GroupKey(path) ==
    IF ParentName(path) # <<>>
    THEN IF GrandparentName(path) # <<>>
         THEN GrandparentName(path) \o << 47 >> \o ParentName(path)
         ELSE ParentName(path)
    ELSE RootKey

FilesOfKey(files, group_key) ==
    LET Keep(path) == GroupKey(path) = group_key
    IN SelectSeq(files, Keep)

RECURSIVE SplitChunks(_, _, _, _, _)
\* The loop "for i in range(num_chains)": chunk i (from 0) is
\* sorted_files[i * cap : min(i * cap + cap, len)], named "<key>_<i + 1>".
SplitChunks(chains, group_key, sorted_files, i, max_samples_per_chain) ==
    LET num_chains == (Len(sorted_files) + max_samples_per_chain - 1) \div max_samples_per_chain
        start_idx == i * max_samples_per_chain
        end_idx == Min2(start_idx + max_samples_per_chain, Len(sorted_files))
        chain_files == SubSeq(sorted_files, start_idx + 1, end_idx)
        chain_name == group_key \o << 95 >> \o IntToStr(i + 1)
    IN IF i >= num_chains THEN chains
       ELSE SplitChunks(DictPut(chains, chain_name,
                                _create_chain_from_files(chain_files, chain_name, [total_files |-> Len(chain_files)], max_samples_per_chain)),
                        group_key, sorted_files, i + 1, max_samples_per_chain)

RECURSIVE RegularLoop(_, _, _, _)
\* The loop over directory_groups.items(), keys in insertion order.
RegularLoop(chains, regular_files, group_keys, max_samples_per_chain) ==
    IF group_keys = <<>> THEN chains
    ELSE LET group_key == Head(group_keys)
             sorted_files == sorted_paths(FilesOfKey(regular_files, group_key))
             next == IF Len(sorted_files) <= max_samples_per_chain
                     THEN DictPut(chains, group_key,
                                  _create_chain_from_files(sorted_files, group_key, [total_files |-> Len(sorted_files)], max_samples_per_chain))
                     ELSE SplitChunks(chains, group_key, sorted_files, 0, max_samples_per_chain)
         IN RegularLoop(next, regular_files, Tail(group_keys), max_samples_per_chain)

_create_regular_chains(regular_files, max_samples_per_chain) ==
    IF regular_files = <<>> THEN <<>>
    ELSE RegularLoop(<<>>, regular_files, Distinct(SeqMap(GroupKey, regular_files)), max_samples_per_chain)

IsRegularPath(path) == ~is_hihat_file(path)[1]

\* plan_smart_chains: the hi-hat chains, then the regular chains, merged
\* into one dictionary.
plan_smart_chains(files, max_samples_per_chain) ==
    LET hihat_files == SelectSeq(files, IsHihatPath)
        regular_files == SelectSeq(files, IsRegularPath)
        hihat_chains == _create_combined_hihat_chains(hihat_files, max_samples_per_chain)
        regular_chains == _create_regular_chains(regular_files, max_samples_per_chain)
    IN DictUpdate(DictUpdate(<<>>, hihat_chains), regular_chains)

\* ------------------------------------------------------ ChainExporter
\* A dictionary handed to the exporter is a record; a key the dictionary
\* lacks is a field the record lacks.  A duration is a number of sixteenths
\* of a second, which a float holds exactly.

RECURSIVE SplitOn(_, _, _)
\* s.split(sep) for a one-character sep; `part` is the part being read.
SplitOn(s, sep, part) ==
    IF s = <<>> THEN << part >>
    ELSE IF Head(s) = sep THEN << part >> \o SplitOn(Tail(s), sep, <<>>)
    ELSE SplitOn(Tail(s), sep, part \o << Head(s) >>)

\* s.replace(old, new) for one-character old and new.
ReplaceChar(s, old, new) == [i \in 1..Len(s) |-> IF s[i] = old THEN new ELSE s[i]]

\* f"{x:.3f}" for x = sixteenths / 16: the nearest thousandth, an exact tie
\* going to the even one, written with three decimals.
FormatThreeDecimals(sixteenths) ==
    LET q == (sixteenths * 1000) \div 16
        r == (sixteenths * 1000) % 16
        thousandths == IF r > 8 \/ (r = 8 /\ q % 2 = 1) THEN q + 1 ELSE q
        frac == thousandths % 1000
    IN IntToStr(thousandths \div 1000) \o << 46 >>
       \o << 48 + (frac \div 100), 48 + ((frac \div 10) % 10), 48 + (frac % 10) >>

\* 'unknown', the default of chain_data.get('name', 'unknown')
UnknownName == <<117, 110, 107, 110, 111, 119, 110>>

\* ChainExporter._generate_filename
_generate_filename(chain_data) ==
    LET group_key == IF "name" \in DOMAIN chain_data THEN chain_data.name ELSE UnknownName
        group_parts == SplitOn(group_key, 47, <<>>)
        base_name == IF 47 \in {group_key[i] : i \in 1..Len(group_key)}
                     THEN IF Len(group_parts) >= 2
                          THEN group_parts[1] \o << 45 >> \o group_parts[2]
                          ELSE ReplaceChar(group_key, 47, 45)
                     ELSE group_key
        metadata == IF "metadata" \in DOMAIN chain_data THEN chain_data.metadata ELSE << >>
        sample_count == IF "sample_count" \in DOMAIN metadata THEN metadata.sample_count ELSE 0
        sample_duration == IF "estimated_duration_seconds" \in DOMAIN metadata
                           THEN metadata.estimated_duration_seconds ELSE 0
    IN base_name \o << 45 >> \o IntToStr(sample_count) \o << 45 >>
       \o FormatThreeDecimals(sample_duration) \o << 115 >>

\* ------------------------------------------------------------- state
VARIABLES
    file_paths,          \* build_sample_chain's argument: the files of the group
    config,              \* the builder's settings (SampleChainBuilder.__init__)
    pc,                  \* stage of the build
    audio_files,         \* result of _load_audio_files
    target_length,       \* result of _get_target_sample_length
    samples,             \* the slot list handed from step to step
    final_sample_count,  \* result of _get_final_sample_count
    chain_audio,         \* result of _concatenate_samples
    result,              \* the dictionary build_sample_chain returns
    error,               \* the exception build_sample_chain raises
    load_attempts,       \* the paths load_audio_file was called with, in call order
    plan_input,          \* plan_smart_chains' argument: the list of paths
    plan_cap,            \* the planner's max_samples_per_chain
    plan_pc,             \* "ready" before plan_smart_chains ran, "planned" after
    hihat_chains,        \* plan_smart_chains' local: result of _create_combined_hihat_chains
    regular_chains,      \* plan_smart_chains' local: result of _create_regular_chains
    all_chains,          \* the dictionary plan_smart_chains returns
    call,                \* a direct call of an AudioProcessor / AudioConverter method: name and arguments
    ret,                 \* what that call returned or raised
    unit_pc              \* "ready" before the call ran, "returned" after

plan_vars == << plan_input, plan_cap, plan_pc, hihat_chains, regular_chains, all_chains >>

build_vars == << file_paths, config, pc, audio_files, target_length, samples, final_sample_count, chain_audio, result, error, load_attempts >>

unit_vars == << call, ret, unit_pc >>

vars == << LIBROSA_AVAILABLE, build_vars, plan_vars, unit_vars >>

\* The files a group may hold: one that fails to load, one at the default
\* output rate (stereo), one at a higher rate and one at a lower rate (mono).
FileKinds ==
    { [exists |-> FALSE, suffix |-> SuffixWav, decodes |-> TRUE, sample_rate |-> 48000, subtype |-> "PCM_16", channels |-> 1, length |-> 1],
      [exists |-> TRUE,  suffix |-> SuffixWav, decodes |-> TRUE, sample_rate |-> 48000, subtype |-> "PCM_16", channels |-> 2, length |-> 2],
      [exists |-> TRUE,  suffix |-> SuffixWav, decodes |-> TRUE, sample_rate |-> 96000, subtype |-> "PCM_24", channels |-> 1, length |-> 3],
      [exists |-> TRUE,  suffix |-> SuffixWav, decodes |-> TRUE, sample_rate |-> 44100, subtype |-> "PCM_16", channels |-> 1, length |-> 1] }

\* The i-th path of a group and the file behind it.
FileAt(i, kind) ==
    [path |-> i, exists |-> kind.exists, suffix |-> kind.suffix, decodes |-> kind.decodes,
     sample_rate |-> kind.sample_rate, subtype |-> kind.subtype, channels |-> kind.channels,
     length |-> kind.length]

\* Output formats: the defaults (48000, 16, 2), a float mono format at
\* another rate, 24 bit without dither, and one unsupported bit depth and
\* one unsupported channel count.
Formats ==
    { [target_sample_rate |-> 48000, target_bit_depth |-> 16, target_channels |-> 2, dithering |-> TRUE],
      [target_sample_rate |-> 44100, target_bit_depth |-> 32, target_channels |-> 1, dithering |-> TRUE],
      [target_sample_rate |-> 48000, target_bit_depth |-> 24, target_channels |-> 2, dithering |-> FALSE],
      [target_sample_rate |-> 48000, target_bit_depth |-> 8,  target_channels |-> 2, dithering |-> TRUE],
      [target_sample_rate |-> 48000, target_bit_depth |-> 16, target_channels |-> 3, dithering |-> TRUE] }

PadStrategies == {"repeat-last", "silence", "none"}

\* SampleChainBuilder.__init__: the settings read from the config dictionary.
Configs ==
    { [target_sample_rate   |-> f.target_sample_rate,
       target_bit_depth     |-> f.target_bit_depth,
       target_channels      |-> f.target_channels,
       dithering            |-> f.dithering,
       enforce_power_of_two |-> e,
       pad_strategy         |-> p,
       max_samples          |-> m] :
      f \in Formats, e \in BOOLEAN, p \in PadStrategies, m \in 1..MaxCap }

\* No direct method call is pending.
UnitIdle ==
    /\ call = <<>>
    /\ ret = <<>>
    /\ unit_pc = "idle"

\* The builder's groups hold .wav files only; librosa is an optional
\* dependency and is taken as not installed.
InitBuild ==
    /\ LIBROSA_AVAILABLE = FALSE
    /\ UnitIdle
    /\ load_attempts = <<>>
    /\ \E n \in 0..MaxFiles : \E kinds \in [1..n -> FileKinds] :
          file_paths = [i \in 1..n |-> FileAt(i, kinds[i])]
    /\ config \in Configs
    /\ pc = "start"
    /\ audio_files = <<>>
    /\ target_length = 0
    /\ samples = <<>>
    /\ final_sample_count = 0
    /\ chain_audio = <<>>
    /\ result = <<>>
    /\ error = ""
    /\ plan_input = <<>>
    /\ plan_cap = 0
    /\ plan_pc = "idle"
    /\ hihat_chains = <<>>
    /\ regular_chains = <<>>
    /\ all_chains = <<>>

Fail(e) ==
    /\ pc' = "Failed"
    /\ error' = e
    /\ UNCHANGED << file_paths, config, audio_files, target_length, samples, final_sample_count, chain_audio, result >>

\* build_sample_chain, the empty-list check and step 1: _load_audio_files
\* calls load_audio_file for every path of the list, in order.
LoadFiles ==
    /\ UNCHANGED << LIBROSA_AVAILABLE, plan_vars, unit_vars >>
    /\ pc = "start"
    /\ IF file_paths = <<>>
       THEN Fail("ValueError: No file paths provided") /\ UNCHANGED load_attempts
       ELSE /\ load_attempts' = [i \in 1..Len(file_paths) |-> file_paths[i].path]
            /\ IF _load_audio_files(file_paths) = <<>>
               THEN Fail("RuntimeError: No audio files could be loaded")
               ELSE /\ audio_files' = _load_audio_files(file_paths)
                    /\ pc' = "Loaded"
                    /\ UNCHANGED << file_paths, config, target_length, samples, final_sample_count, chain_audio, result, error >>

\* Steps 2 and 3.
NormalizeLengths ==
    /\ UNCHANGED << LIBROSA_AVAILABLE, plan_vars, unit_vars >>
    /\ pc = "Loaded"
    /\ UNCHANGED load_attempts
    /\ target_length' = _get_target_sample_length(audio_files, config.target_sample_rate)
    /\ samples' = _normalize_sample_lengths(audio_files, target_length', config.target_sample_rate)
    /\ pc' = "LengthNormalized"
    /\ UNCHANGED << file_paths, config, audio_files, final_sample_count, chain_audio, result, error >>

\* Steps 4 and 5.
NormalizeCount ==
    /\ UNCHANGED << LIBROSA_AVAILABLE, plan_vars, unit_vars >>
    /\ pc = "LengthNormalized"
    /\ UNCHANGED load_attempts
    /\ final_sample_count' = _get_final_sample_count(Len(samples), config.enforce_power_of_two, config.max_samples)
    /\ samples' = _pad_samples_to_power_of_two(samples, final_sample_count', config.pad_strategy)
    /\ pc' = "CountNormalized"
    /\ UNCHANGED << file_paths, config, audio_files, target_length, chain_audio, result, error >>

\* The outcomes of the dither noise of one build: none when no bit-depth
\* reduction with dithering happens, else below or above zero.
DitherOutcomes == IF config.dithering /\ config.target_bit_depth < 32 THEN {-1, 1} ELSE {0}

\* Step 6.
ConvertFormat ==
    /\ UNCHANGED << LIBROSA_AVAILABLE, plan_vars, unit_vars >>
    /\ pc = "CountNormalized"
    /\ UNCHANGED load_attempts
    /\ IF _convert_samples_raises(samples, config.target_bit_depth, config.target_channels)
       THEN Fail("ValueError: Unsupported target format")
       ELSE \E dither_sign \in DitherOutcomes :
            /\ samples' = _convert_samples_to_target_format(samples, config, dither_sign)
            /\ pc' = "FormatConverted"
            /\ UNCHANGED << file_paths, config, audio_files, target_length, final_sample_count, chain_audio, result, error >>

\* Step 7.
Concatenate ==
    /\ UNCHANGED << LIBROSA_AVAILABLE, plan_vars, unit_vars >>
    /\ pc = "FormatConverted"
    /\ UNCHANGED load_attempts
    /\ IF samples = <<>> THEN Fail("IndexError: list index out of range")
       ELSE /\ chain_audio' = _concatenate_samples(samples)
            /\ pc' = "Concatenated"
            /\ UNCHANGED << file_paths, config, audio_files, target_length, samples, final_sample_count, result, error >>

\* Step 8 and the return statement.
ReturnChain ==
    /\ UNCHANGED << LIBROSA_AVAILABLE, plan_vars, unit_vars >>
    /\ pc = "Concatenated"
    /\ UNCHANGED load_attempts
    /\ result' = [audio_data     |-> chain_audio,
                  metadata       |-> _create_chain_metadata(file_paths, final_sample_count, target_length, chain_audio, config),
                  sample_count   |-> final_sample_count,
                  sample_length  |-> target_length,
                  total_duration |-> << Len(chain_audio.data), config.target_sample_rate >>]
    /\ pc' = "Built"
    /\ UNCHANGED << file_paths, config, audio_files, target_length, samples, final_sample_count, chain_audio, error >>

NextBuild ==
    \/ LoadFiles
    \/ NormalizeLengths
    \/ NormalizeCount
    \/ ConvertFormat
    \/ Concatenate
    \/ ReturnChain

SpecBuild == InitBuild /\ [][NextBuild]_vars

\* ----------------------------------------------------- planner machine
\* Largest number of paths handed to one plan_smart_chains call.
MaxInput == 3
\* Largest configured max_samples_per_chain of the planner.
MaxPlanCap == 3

\* The library the planner's input lists are drawn from.
Universe ==
    << << <<72>>, <<67, 108, 111, 115, 101, 100, 72, 72, 32, 65, 32, 49, 46, 119, 97, 118>> >>,   \* H/ClosedHH A 1.wav
       << <<72>>, <<67, 108, 111, 115, 101, 100, 72, 72, 32, 65, 32, 50, 46, 119, 97, 118>> >>,   \* H/ClosedHH A 2.wav
       << <<72>>, <<79, 112, 101, 110, 72, 72, 32, 65, 46, 119, 97, 118>> >>,   \* H/OpenHH A.wav
       << <<72>>, <<67, 108, 111, 115, 101, 100, 72, 72, 32, 65, 46, 119, 97, 118>> >>,   \* H/ClosedHH A.wav
       << <<72>>, <<99, 108, 115, 100, 95, 79, 112, 101, 110, 45, 66, 46, 119, 97, 118>> >>,   \* H/clsd_Open-B.wav
       << <<68>>, <<75>>, <<97, 46, 119, 97, 118>> >>,   \* D/K/a.wav
       << <<68>>, <<75>>, <<98, 46, 119, 97, 118>> >>,   \* D/K/b.wav
       << <<68>>, <<75>>, <<99, 46, 119, 97, 118>> >>,   \* D/K/c.wav
       << <<68>>, <<75, 95, 49>>, <<120, 46, 119, 97, 118>> >>,   \* D/K_1/x.wav
       << <<104, 97, 116, 115, 95, 49>>, <<107, 46, 119, 97, 118>> >>,   \* hats_1/k.wav
       << <<79, 112, 101, 110>>, <<99, 46, 119, 97, 118>> >>,   \* Open/c.wav
       << <<114, 46, 119, 97, 118>> >> >>   \* r.wav

RECURSIVE Ascending(_)
\* The paths with the given Universe indices, by ascending index.
Ascending(S) ==
    IF S = {} THEN <<>>
    ELSE LET m == CHOOSE x \in S : \A y \in S : x <= y
         IN << Universe[m] >> \o Ascending(S \ {m})

Reversed(s) == [i \in 1..Len(s) |-> s[Len(s) + 1 - i]]

\* The argument lists: up to MaxInput distinct paths of the Universe, in
\* Universe order or in the reverse order.
InputLists ==
    LET chosen == {S \in SUBSET (1..Len(Universe)) : Cardinality(S) <= MaxInput}
    IN {Ascending(S) : S \in chosen} \cup {Reversed(Ascending(S)) : S \in chosen}

BuildIdle ==
    /\ file_paths = <<>>
    /\ config = [target_sample_rate |-> 48000, target_bit_depth |-> 16, target_channels |-> 2,
                 dithering |-> TRUE, enforce_power_of_two |-> TRUE, pad_strategy |-> "repeat-last",
                 max_samples |-> 32]
    /\ pc = "idle"
    /\ audio_files = <<>>
    /\ target_length = 0
    /\ samples = <<>>
    /\ final_sample_count = 0
    /\ chain_audio = <<>>
    /\ result = <<>>
    /\ error = ""
    /\ load_attempts = <<>>

InitPlan ==
    /\ LIBROSA_AVAILABLE = FALSE
    /\ BuildIdle
    /\ UnitIdle
    /\ plan_input \in InputLists
    /\ plan_cap \in 1..MaxPlanCap
    /\ plan_pc = "ready"
    /\ hihat_chains = <<>>
    /\ regular_chains = <<>>
    /\ all_chains = <<>>

\* One call of plan_smart_chains: the hi-hat chains, the regular chains,
\* and the two merged into the dictionary returned.
PlanChains ==
    /\ plan_pc = "ready"
    /\ hihat_chains' = _create_combined_hihat_chains(SelectSeq(plan_input, IsHihatPath), plan_cap)
    /\ regular_chains' = _create_regular_chains(SelectSeq(plan_input, IsRegularPath), plan_cap)
    /\ all_chains' = DictUpdate(DictUpdate(<<>>, hihat_chains'), regular_chains')
    /\ plan_pc' = "planned"
    /\ UNCHANGED << plan_input, plan_cap >>
    /\ UNCHANGED << LIBROSA_AVAILABLE, build_vars, unit_vars >>

NextPlan == PlanChains

SpecPlan == InitPlan /\ [][NextPlan]_vars

\* ------------------------------------------------- direct method calls
\* Largest frame count of a buffer handed to a converter method.
MaxFrames == 2
\* Largest channel count of such a buffer.
MaxChannels == 3
\* Largest number handed to is_power_of_two / get_next_power_of_two.
MaxNumber == 9

\* No plan is pending.
PlanIdle ==
    /\ plan_input = <<>>
    /\ plan_cap = 0
    /\ plan_pc = "idle"
    /\ hihat_chains = <<>>
    /\ regular_chains = <<>>
    /\ all_chains = <<>>

\* The samples of an argument buffer: distinct per frame and channel and
\* multiples of 12, so that a mean over up to four channels is exact.
UnitSample(f, c) == 12 * (10 * f + c)

\* 2-D argument buffers: float64 as load_audio_file returns them, int16 as
\* convert_bit_depth returns them.
UnitBuffers ==
    { [ndim |-> 2, dtype |-> d,
       data |-> [f \in 1..n |-> [c \in 1..k |-> UnitSample(f, c)]]] :
      d \in {"float64", "int16"}, n \in 1..MaxFrames, k \in 1..MaxChannels }

Rates == {44100, 48000, 96000}

BitDepths == {8, 16, 24, 32}

ChannelCounts == 1..(MaxChannels + 1)

\* The files a path handed to load_audio_file may lead to.
UnitFiles ==
    { [path |-> 1, exists |-> e, suffix |-> x, decodes |-> d, sample_rate |-> 44100,
       subtype |-> t, channels |-> k, length |-> n] :
      e \in BOOLEAN, d \in BOOLEAN, t \in {"PCM_16", "PCM_24", "FLOAT"},
      x \in {SuffixWav, <<46, 87, 65, 86>>, SuffixAiff, SuffixFlac, SuffixMp3, <<46, 116, 120, 116>>},
      k \in 1..MaxChannels, n \in 1..MaxFrames }

\* Directory names and filenames of the paths handed to is_hihat_file and
\* extract_base_name; the empty directory name is a path without directory.
UnitParents ==
    { <<>>,   \* (none)
      <<72>>,   \* H
      <<67, 108, 111, 115, 101, 100>>,   \* Closed
      <<79, 80, 78, 32, 107, 105, 116>>,   \* OPN kit
      <<99, 108, 115, 100, 32, 111, 112, 101, 110>>,   \* clsd open
      <<75, 105, 116>> }   \* Kit

UnitFilenames ==
    { <<67, 108, 111, 115, 101, 100, 72, 72, 32, 88, 79, 82, 32, 49, 46, 119, 97, 118>>,   \* ClosedHH XOR 1.wav
      <<79, 112, 101, 110, 72, 72, 32, 88, 79, 82, 46, 119, 97, 118>>,   \* OpenHH XOR.wav
      <<107, 105, 99, 107, 46, 119, 97, 118>>,   \* kick.wav
      <<79, 80, 78, 95, 120, 46, 119, 97, 118>>,   \* OPN_x.wav
      <<99, 108, 115, 100, 95, 79, 112, 101, 110, 45, 66, 46, 119, 97, 118>>,   \* clsd_Open-B.wav
      <<79, 112, 101, 110, 72, 72, 46, 119, 97, 118>>,   \* OpenHH.wav
      <<95, 107, 105, 99, 107, 46, 119, 97, 118>>,   \* _kick.wav
      <<67, 108, 111, 115, 101, 100, 72, 72, 95, 46, 119, 97, 118>>,   \* ClosedHH_.wav
      <<97, 95, 95, 98, 32, 45, 32, 99, 46, 119, 97, 118>>,   \* a__b - c.wav
      <<120, 46, 111, 112, 110>> }   \* x.opn

UnitPaths ==
    { IF p = <<>> THEN << n >> ELSE << p, n >> : p \in UnitParents, n \in UnitFilenames }

\* Chain names and group keys handed to the exporter.
UnitKeys ==
    { <<100, 114, 117, 109, 115, 47, 107, 105, 99, 107>>,   \* drums/kick
      <<104, 105, 104, 97, 116>>,   \* hihat
      <<97, 47, 98, 47, 99>> }   \* a/b/c

\* Durations in sixteenths of a second: 0.0625, 0.1875, 0.5, 1.5, 12.3125.
UnitDurations == {1, 3, 8, 24, 197}

\* The dictionaries handed to _generate_filename: with or without a name,
\* and with the metadata the planner writes (sample_count,
\* estimated_duration_seconds), the metadata of the exporter's unit tests
\* (group_key, sample_count, sample_duration), or none.
UnitChainData ==
    LET metadatas ==
            { [sample_count |-> n, estimated_duration_seconds |-> d] : n \in {8, 16}, d \in UnitDurations }
            \cup { [group_key |-> k, sample_count |-> n, sample_duration |-> d] :
                   k \in UnitKeys, n \in {8, 16}, d \in UnitDurations }
    IN { [name |-> k, metadata |-> m] : k \in UnitKeys, m \in metadatas }
       \cup { [metadata |-> m] : m \in metadatas }
       \cup { [name |-> k] : k \in UnitKeys }

\* The calls: a method name with its arguments.  current_channels is the
\* channel count of the buffer; current_bits is any depth for
\* convert_bit_depth and the depth of the dtype (as the builder passes it)
\* for convert_audio.
Calls ==
    { [op |-> "convert_channels", audio_data |-> b, current_channels |-> NumChannels(b), target_channels |-> t] :
      b \in UnitBuffers, t \in ChannelCounts }
    \cup
    { [op |-> "convert_bit_depth", audio_data |-> b, current_bits |-> c, target_bits |-> t, dithering |-> d] :
      b \in UnitBuffers, c \in BitDepths, t \in BitDepths, d \in BOOLEAN }
    \cup
    { [op |-> "convert_sample_rate", audio_data |-> b, current_rate |-> c, target_rate |-> t] :
      b \in UnitBuffers, c \in Rates, t \in Rates }
    \cup
    { [op |-> "convert_audio", audio_data |-> b, current_rate |-> r[1], current_bits |-> CurrentBits(b),
       current_channels |-> NumChannels(b), target_rate |-> r[2], target_bits |-> tb,
       target_channels |-> tc, dithering |-> d] :
      b \in UnitBuffers, r \in Rates \X Rates, tb \in BitDepths, tc \in ChannelCounts, d \in BOOLEAN }
    \cup
    { [op |-> o, n |-> n] : o \in {"is_power_of_two", "get_next_power_of_two"}, n \in (-2)..MaxNumber }
    \cup
    { [op |-> o, path |-> p] : o \in {"is_hihat_file", "extract_base_name"}, p \in UnitPaths }
    \cup
    { [op |-> "_generate_filename", chain_data |-> c] : c \in UnitChainData }
    \cup
    { [op |-> "load_audio_file", file_path |-> f] : f \in UnitFiles }

InitUnit ==
    /\ LIBROSA_AVAILABLE \in BOOLEAN
    /\ BuildIdle
    /\ PlanIdle
    /\ call \in Calls
    /\ ret = <<>>
    /\ unit_pc = "ready"

\* A method returns a value or raises; its argument is left as it was.
Returns(raised, value) ==
    /\ ret' = [raised |-> raised, value |-> value]
    /\ unit_pc' = "returned"
    /\ UNCHANGED << call, LIBROSA_AVAILABLE, build_vars, plan_vars >>

CallConvertChannels ==
    /\ unit_pc = "ready"
    /\ call.op = "convert_channels"
    /\ IF convert_channels_raises(call.current_channels, call.target_channels)
       THEN Returns("ValueError", <<>>)
       ELSE Returns("None", convert_channels(call.audio_data, call.current_channels, call.target_channels))

\* The dither noise is drawn only when dithering is on and the depth goes down.
CallConvertBitDepth ==
    /\ unit_pc = "ready"
    /\ call.op = "convert_bit_depth"
    /\ IF convert_bit_depth_raises(call.current_bits, call.target_bits)
       THEN Returns("ValueError", <<>>)
       ELSE \E dither_sign \in (IF call.dithering /\ call.target_bits < call.current_bits THEN {-1, 1} ELSE {0}) :
              Returns("None", convert_bit_depth(call.audio_data, call.current_bits, call.target_bits, call.dithering, dither_sign))

CallConvertSampleRate ==
    /\ unit_pc = "ready"
    /\ call.op = "convert_sample_rate"
    /\ Returns("None", convert_sample_rate(call.audio_data, call.current_rate, call.target_rate))

CallConvertAudio ==
    /\ unit_pc = "ready"
    /\ call.op = "convert_audio"
    /\ IF convert_audio_raises(call.current_bits, call.current_channels, call.target_bits, call.target_channels)
       THEN Returns("ValueError", <<>>)
       ELSE \E dither_sign \in (IF call.dithering /\ call.target_bits < call.current_bits THEN {-1, 1} ELSE {0}) :
              Returns("None", convert_audio(call.audio_data, call.current_rate, call.current_bits, call.current_channels, call.target_rate, call.target_bits, call.target_channels, call.dithering, dither_sign))

CallIsPowerOfTwo ==
    /\ unit_pc = "ready"
    /\ call.op = "is_power_of_two"
    /\ Returns("None", is_power_of_two(call.n))

CallGetNextPowerOfTwo ==
    /\ unit_pc = "ready"
    /\ call.op = "get_next_power_of_two"
    /\ Returns("None", get_next_power_of_two(call.n))

CallLoadAudioFile ==
    /\ unit_pc = "ready"
    /\ call.op = "load_audio_file"
    /\ IF load_audio_file_raises(call.file_path)
       THEN Returns(load_audio_file_error(call.file_path), <<>>)
       ELSE Returns("None", load_audio_file(call.file_path))

CallIsHihatFile ==
    /\ unit_pc = "ready"
    /\ call.op = "is_hihat_file"
    /\ Returns("None", is_hihat_file(call.path))

CallExtractBaseName ==
    /\ unit_pc = "ready"
    /\ call.op = "extract_base_name"
    /\ Returns("None", extract_base_name(call.path))

CallGenerateFilename ==
    /\ unit_pc = "ready"
    /\ call.op = "_generate_filename"
    /\ Returns("None", _generate_filename(call.chain_data))

NextUnit ==
    \/ CallConvertChannels
    \/ CallConvertBitDepth
    \/ CallConvertSampleRate
    \/ CallConvertAudio
    \/ CallIsPowerOfTwo
    \/ CallGetNextPowerOfTwo
    \/ CallLoadAudioFile
    \/ CallIsHihatFile
    \/ CallExtractBaseName
    \/ CallGenerateFilename

SpecUnit == InitUnit /\ [][NextUnit]_vars

\* ------------------------------------------------------- plan, then build
\* The planner's chains handed to the builder, as the pipeline script does:
\* one plan_smart_chains call, then build_sample_chain on the file list of
\* a planned chain, planner and builder holding the same
\* max_samples_per_chain.

\* The place of a path in the library.
UniverseIndex(path) == CHOOSE i \in 1..Len(Universe) : Universe[i] = path

\* The file behind a path of the library: every file exists and decodes;
\* rates, channel counts and lengths vary with the place in the library.
LibraryFile(path) ==
    LET i == UniverseIndex(path)
        kind == CHOOSE k \in FileKinds :
                    /\ k.exists
                    /\ k.sample_rate = (IF i % 3 = 0 THEN 48000 ELSE IF i % 3 = 1 THEN 96000 ELSE 44100)
    IN FileAt(i, kind)

\* The builder's settings: the defaults of SampleChainBuilder.__init__ with
\* the planner's cap, with or without power-of-two enforcement.
PipelineConfigs ==
    { [target_sample_rate   |-> 48000,
       target_bit_depth     |-> 16,
       target_channels      |-> 2,
       dithering            |-> TRUE,
       enforce_power_of_two |-> e,
       pad_strategy         |-> "repeat-last",
       max_samples          |-> plan_cap] : e \in BOOLEAN }

InitEndToEnd == InitPlan

\* build_sample_chain is called with the files of one planned chain.
StartBuild ==
    /\ plan_pc = "planned"
    /\ pc = "idle"
    /\ \E n \in 1..Len(all_chains) :
          file_paths' = SeqMap(LibraryFile, all_chains[n].value.files)
    /\ config' \in PipelineConfigs
    /\ pc' = "start"
    /\ UNCHANGED << audio_files, target_length, samples, final_sample_count, chain_audio, result, error, load_attempts >>
    /\ UNCHANGED << LIBROSA_AVAILABLE, plan_vars, unit_vars >>

NextEndToEnd ==
    \/ PlanChains
    \/ StartBuild
    \/ LoadFiles
    \/ NormalizeLengths
    \/ NormalizeCount
    \/ ConvertFormat
    \/ Concatenate
    \/ ReturnChain

SpecEndToEnd == InitEndToEnd /\ [][NextEndToEnd]_vars

\* ========================================================== properties
\* n is one of 1, 2, 4, 8, ...
IsPowerOfTwo(n) == n >= 1 /\ \E k \in 0..n : 2 ^ k = n

\* The smallest power of two >= n (1 for n <= 0).
SmallestPowerOfTwoAtLeast(n) ==
    IF n <= 0 THEN 1
    ELSE CHOOSE q \in 1..(2 * n) : /\ IsPowerOfTwo(q)
                                   /\ q >= n
                                   /\ \A r \in 1..(q - 1) : ~(IsPowerOfTwo(r) /\ r >= n)

\* (frames, channels) of a slot.
Shape(buf) == << NumFrames(buf), NumChannels(buf) >>

AllZero(buf) == \A f \in 1..Len(buf.data) : \A c \in 1..Len(buf.data[f]) : buf.data[f][c] = 0

\* The build has no cap interference: the next power of two of the number
\* of paths passed in fits under max_samples_per_chain.
NoCapInterference == SmallestPowerOfTwoAtLeast(Len(file_paths)) <= config.max_samples

PaddingEnabled == config.pad_strategy \in {"repeat-last", "silence"}

\* C1: for every returned chain the number of frames of audio_data equals
\* sample_count * sample_length.
C1_FramesEqualCountTimesLength ==
    pc = "Built" => Len(result.audio_data.data) = result.sample_count * result.sample_length

\* C3 as stated: with enforce_power_of_two and no cap interference the
\* returned sample_count is a power of two and at least the number of file
\* paths passed to build_sample_chain.
C3_CountAtLeastPathCount ==
    (pc = "Built" /\ config.enforce_power_of_two /\ NoCapInterference)
        => /\ IsPowerOfTwo(result.sample_count)
           /\ result.sample_count >= Len(file_paths)

\* C3 amended: with enforce_power_of_two and no cap interference the
\* returned sample_count is a power of two and at least the number of files
\* that loaded.
C3_CountAtLeastLoadedCount ==
    (pc = "Built" /\ config.enforce_power_of_two /\ NoCapInterference)
        => /\ IsPowerOfTwo(result.sample_count)
           /\ result.sample_count >= Len(audio_files)

\* A build without cap interference in which a file failed to load and the
\* returned count is below the number of paths.
C3_Witness ==
    /\ pc = "Built"
    /\ config.enforce_power_of_two
    /\ NoCapInterference
    /\ Len(audio_files) < Len(file_paths)
    /\ result.sample_count < Len(file_paths)
    /\ result.sample_count >= Len(audio_files)

\* C4: with enforce_power_of_two and a padding strategy (repeat-last or
\* silence) the built chain's sample_count is a power of two, whatever the
\* number of loaded files and the cap.
C4_PowerOfTwoWhenPadding ==
    (pc = "Built" /\ config.enforce_power_of_two /\ PaddingEnabled)
        => IsPowerOfTwo(result.sample_count)

\* The frame count a loaded file has once resampled to the output rate.
ResampledFrames(audio) ==
    NumFrames(convert_sample_rate(audio.audio_data, audio.sample_rate, config.target_sample_rate))

\* C7: sample_length is the maximum over the loaded files of the frame
\* count the file has after resampling to the output rate.
C7_LengthIsMaxResampled ==
    pc = "Built"
        => result.sample_length = Max({ResampledFrames(audio_files[i]) : i \in 1..Len(audio_files)})

PadsNow == pc = "LengthNormalized" /\ PaddingEnabled /\ Len(samples) < final_sample_count'

\* What C9 says of every padding step but the shape of silence: the n slots
\* stay, t - n slots are appended, repeat-last appends copies of slot n-1,
\* silence appends zeros.
PadKeepsAndAppends ==
    LET n == Len(samples)
        t == final_sample_count'
    IN /\ Len(samples') = t
       /\ SubSeq(samples', 1, n) = samples
       /\ config.pad_strategy = "repeat-last" => \A k \in (n + 1)..t : samples'[k] = samples[n]
       /\ config.pad_strategy = "silence" => \A k \in (n + 1)..t : AllZero(samples'[k])

\* C9 as stated: ... and every silence slot has the shape of the existing
\* slots (of each of them).
C9_SilenceShapedLikeEverySlot ==
    [][PadsNow => /\ PadKeepsAndAppends
                  /\ config.pad_strategy = "silence"
                       => \A k \in (Len(samples) + 1)..final_sample_count' :
                            \A i \in 1..Len(samples) : Shape(samples'[k]) = Shape(samples[i])]_vars

\* C9 amended: ... and every silence slot has the shape of slot 0: the frame
\* count of every existing slot and the channel count of the first one.
C9_SilenceShapedLikeFirstSlot ==
    [][PadsNow => /\ PadKeepsAndAppends
                  /\ config.pad_strategy = "silence"
                       => \A k \in (Len(samples) + 1)..final_sample_count' :
                            /\ Shape(samples'[k]) = Shape(samples[1])
                            /\ \A i \in 1..Len(samples) : NumFrames(samples'[k]) = NumFrames(samples[i])]_vars

\* Silence was appended to slots of differing channel counts.
C9_Witness ==
    /\ pc = "CountNormalized"
    /\ config.pad_strategy = "silence"
    /\ Len(samples) > Len(audio_files)
    /\ AllZero(samples[Len(samples)])
    /\ \E i \in 1..Len(audio_files) : NumChannels(samples[i]) # NumChannels(samples[Len(samples)])

\* C10: with pad_strategy none and enforce_power_of_two, a chain of n loaded
\* files (n no power of two, n below the cap) has n slots, and sample_count
\* and the metadata record n and that it is no power of two.
C10_UnpaddedCountRecorded ==
    LET n == Len(audio_files)
    IN (/\ pc = "Built"
        /\ config.pad_strategy = "none"
        /\ config.enforce_power_of_two
        /\ ~IsPowerOfTwo(n)
        /\ n < config.max_samples)
          => /\ Len(samples) = n
             /\ result.sample_count = n
             /\ result.metadata.sample_count = n
             /\ result.metadata.power_of_two = FALSE

\* ---------------------------------------------------- planner properties
Planned == plan_pc = "planned"

ChainNames == DictKeys(all_chains)

\* C2: every chain of a plan, hi-hat or regular, holds at most
\* max_samples_per_chain files.
C2_ChainsWithinCap ==
    Planned => \A i \in 1..Len(all_chains) :
                  /\ all_chains[i].value.metadata.sample_count <= plan_cap
                  /\ Len(all_chains[i].value.files) <= plan_cap

\* The scenario's files: ClosedHH A 1.wav, ClosedHH A 2.wav, OpenHH A.wav.
ClosedA1 == Universe[1]

ClosedA2 == Universe[2]

OpenA == Universe[3]

\* The plan input is these three files and the cap leaves room for them.
TrioPlanned ==
    /\ Planned
    /\ Len(plan_input) = 3
    /\ {plan_input[i] : i \in 1..3} = {ClosedA1, ClosedA2, OpenA}
    /\ plan_cap >= 3

\* One hi-hat chain with two closed files and one open file, in this order.
OneHihatChainOf(files) ==
    /\ Len(all_chains) = 1
    /\ all_chains[1].value.metadata.type = "hihat"
    /\ all_chains[1].value.metadata.closed_count = 2
    /\ all_chains[1].value.metadata.open_count = 1
    /\ all_chains[1].value.files = files

\* C5 as stated: the three files have base name 'A' and form one hi-hat
\* chain, closed_count 2, open_count 1, in the order Closed 1, Closed 2, Open.
C5_BaseNameAClosedFirst ==
    TrioPlanned => /\ extract_base_name(ClosedA1) = << 65 >>
                   /\ extract_base_name(ClosedA2) = << 65 >>
                   /\ extract_base_name(OpenA) = << 65 >>
                   /\ OneHihatChainOf(<< ClosedA1, ClosedA2, OpenA >>)

\* C5 amended: the base names are 'A 1', 'A 2' and 'A'; the files form one
\* hi-hat chain, closed_count 2, open_count 1, in base-name order: Open,
\* Closed 1, Closed 2.
C5_BaseNamesKeepNumberOpenFirst ==
    TrioPlanned => /\ extract_base_name(ClosedA1) = << 65, 32, 49 >>
                   /\ extract_base_name(ClosedA2) = << 65, 32, 50 >>
                   /\ extract_base_name(OpenA) = << 65 >>
                   /\ OneHihatChainOf(<< OpenA, ClosedA1, ClosedA2 >>)

\* The scenario was planned into one chain of three files.
C5_Witness ==
    /\ TrioPlanned
    /\ Len(all_chains) = 1
    /\ all_chains[1].value.metadata.sample_count = 3
    /\ all_chains[1].value.metadata.hat_names = << << 65 >>, << 65, 32, 49 >>, << 65, 32, 50 >> >>

\* The regular files of the input that fall under a directory key.
RegularFilesOf(key) ==
    {plan_input[i] : i \in {j \in 1..Len(plan_input) :
                              IsRegularPath(plan_input[j]) /\ GroupKey(plan_input[j]) = key}}

RegularKeys ==
    {GroupKey(plan_input[i]) : i \in {j \in 1..Len(plan_input) : IsRegularPath(plan_input[j])}}

\* s lists exactly the paths of S, each once, in ascending path order.
IsSortedListOf(s, S) ==
    /\ Len(s) = Cardinality(S)
    /\ {s[i] : i \in 1..Len(s)} = S
    /\ \A i, j \in 1..Len(s) : i < j => PathLess(s[i], s[j])

\* '<key>_<i>'
SplitName(key, i) == key \o << 95 >> \o IntToStr(i)

FilesOfChain(name) == DictGet(all_chains, name).files

RECURSIVE ChunksConcatenated(_, _)
\* The file lists of '<key>_1' .. '<key>_<k>' one after the other.
ChunksConcatenated(key, k) ==
    IF k = 0 THEN <<>> ELSE ChunksConcatenated(key, k - 1) \o FilesOfChain(SplitName(key, k))

\* C6: a key with n <= cap regular files gives one chain named after the
\* key; a key with more gives exactly ceil(n / cap) chains '<key>_1', ...,
\* all but the last of cap files, which concatenated are the key's files in
\* sorted order, none dropped or duplicated.
C6_RegularSplitting ==
    Planned => \A key \in RegularKeys :
        LET n == Cardinality(RegularFilesOf(key))
            k == (n + plan_cap - 1) \div plan_cap
        IN IF n <= plan_cap
           THEN /\ key \in ChainNames
                /\ IsSortedListOf(FilesOfChain(key), RegularFilesOf(key))
           ELSE /\ \A i \in 1..k : SplitName(key, i) \in ChainNames
                /\ SplitName(key, k + 1) \notin ChainNames
                /\ \A i \in 1..(k - 1) : Len(FilesOfChain(SplitName(key, i))) = plan_cap
                /\ IsSortedListOf(ChunksConcatenated(key, k), RegularFilesOf(key))

\* ---------------------------------------------------------------- C11
\* The path ids of a list of files.
PathIds(files) == [i \in 1..Len(files) |-> files[i].path]

\* The files of the group whose load does not raise, in the group's order.
FilesThatLoad == SelectSeq(file_paths, LAMBDA fp : load_audio_file_error(fp) = "None")

\* The path ids of the loaded files.
LoadedIds == [i \in 1..Len(audio_files) |-> audio_files[i].file_path]

NoLoadableFiles == error = "RuntimeError: No audio files could be loaded"

\* C11: once the load step has run, the loaded list holds exactly the files
\* that load, in their original relative order, and every path of a
\* non-empty group was tried (a failure does not stop the loop); the build
\* fails with "No audio files could be loaded" exactly when the group is
\* non-empty and every file fails to load; an empty group is rejected with
\* no load attempted.
C11_FailedLoadsSkipped ==
    pc # "start" =>
        /\ LoadedIds = PathIds(FilesThatLoad)
        /\ \A i \in 1..Len(audio_files) :
              audio_files[i].audio_data = load_audio_file(FilesThatLoad[i]).audio_data
        /\ NoLoadableFiles <=> (file_paths # <<>> /\ FilesThatLoad = <<>>)
        /\ NoLoadableFiles => pc = "Failed"
        /\ IF file_paths = <<>>
           THEN pc = "Failed" /\ error = "ValueError: No file paths provided" /\ load_attempts = <<>>
           ELSE load_attempts = PathIds(file_paths)

\* A group whose middle file fails to load was built from the two others.
C11_Witness ==
    /\ pc = "Built"
    /\ Len(file_paths) = 3
    /\ load_audio_file_error(file_paths[2]) # "None"
    /\ LoadedIds = << 1, 3 >>

\* ---------------------------------------------------------------- C12
\* The stage a build may move to from each stage; a build fails in the load
\* step or in the format conversion.
StageSuccessors ==
    { << "start", "Loaded" >>, << "Loaded", "LengthNormalized" >>,
      << "LengthNormalized", "CountNormalized" >>, << "CountNormalized", "FormatConverted" >>,
      << "FormatConverted", "Concatenated" >>, << "Concatenated", "Built" >>,
      << "start", "Failed" >>, << "CountNormalized", "Failed" >> }

\* The array dtypes a slot converted to the given bit depth may have.
DtypesOfBitDepth(bits) ==
    IF bits = 16 THEN {"int16"}
    ELSE IF bits = 24 THEN {"int32"}
    ELSE IF bits = 32 THEN {"float32", "float64"}
    ELSE {}

\* Every slot is length-normalized and in the output format, the slot list
\* is non-empty, and the chain is the slots laid end to end.
SlotsCompletedEveryStage ==
    /\ samples # <<>>
    /\ \A i \in 1..Len(samples) :
          /\ NumFrames(samples[i]) = target_length
          /\ NumChannels(samples[i]) = config.target_channels
          /\ samples[i].dtype \in DtypesOfBitDepth(config.target_bit_depth)
    /\ chain_audio.data = ConcatFrames(samples)
    /\ Len(chain_audio.data) = Len(samples) * target_length

BuildOutcome ==
    /\ pc = "Failed" => error # "" /\ result = <<>> /\ chain_audio = <<>>
    /\ pc = "Built" => error = "" /\ result # <<>> /\ result.audio_data = chain_audio /\ SlotsCompletedEveryStage
    /\ pc \notin {"Built", "Failed"} => error = "" /\ result = <<>>

\* C12: every step of a build moves to the next stage in the order start,
\* Loaded, LengthNormalized, CountNormalized, FormatConverted, Concatenated,
\* Built, or to Failed, and never leaves Built or Failed; a Failed build
\* carries one error and neither a result nor chain audio; a Built one
\* carries a result and no error, and every slot of it went through every
\* stage.
C12_StagesInOrderOneOutcome ==
    /\ [][(<< pc, pc' >> \in StageSuccessors)]_vars
    /\ []BuildOutcome

\* A build of two or more slots that failed in the format conversion.
C12_Witness ==
    /\ pc = "Failed"
    /\ error = "ValueError: Unsupported target format"
    /\ Len(samples) >= 2
    /\ result = <<>>

\* ---------------------------------------------------------------- C13
\* The hi-hat files of the planned list.
HihatInputs == SelectSeq(plan_input, IsHihatPath)

\* Some chain named hats_N lists both files.
InOneHatsChain(a, b) ==
    \E name \in ChainNames :
        /\ StartsWith(name, HatsPrefix)
        /\ \E i, j \in 1..Len(FilesOfChain(name)) :
              FilesOfChain(name)[i] = a /\ FilesOfChain(name)[j] = b

\* C13: in a plan, any two hi-hat files of the input with the same
\* extracted base name (a file and itself included) are listed together in
\* one hats_N chain.
C13_BaseNameGroupInOneChain ==
    Planned =>
        \A i, j \in 1..Len(HihatInputs) :
            extract_base_name(HihatInputs[i]) = extract_base_name(HihatInputs[j])
                => InOneHatsChain(HihatInputs[i], HihatInputs[j])

\* ---------------------------------------------------------------- C14
\* The pending direct call was of the given method and returned a value.
Returned(op) == unit_pc = "returned" /\ call.op = op /\ ret.raised = "None"

\* C14: a convert_channels call that returns keeps the frame count; to mono
\* from two or more channels every output frame is the arithmetic mean of
\* all channels of the source frame; to stereo from mono both channels
\* equal the source channel; to stereo from more than two channels the
\* output frame is the first two source channels.
C14_ChannelConversionRules ==
    Returned("convert_channels") =>
        LET src == call.audio_data.data
            out == ret.value.data
        IN /\ Len(out) = Len(src)
           /\ \A f \in 1..Len(src) :
                 /\ (call.target_channels = 1 /\ call.current_channels >= 2)
                       => (Len(out[f]) = 1 /\ out[f][1] * Len(src[f]) = SumSeq(src[f]))
                 /\ (call.target_channels = 2 /\ call.current_channels = 1)
                       => out[f] = << src[f][1], src[f][1] >>
                 /\ (call.target_channels = 2 /\ call.current_channels > 2)
                       => out[f] = << src[f][1], src[f][2] >>

\* ---------------------------------------------------------------- C15
\* The pending direct call was of the given method and has returned or raised.
Finished(op) == unit_pc = "returned" /\ call.op = op

\* C15 as stated: convert_channels raises for every target other than 1 or
\* 2 and convert_bit_depth for every target other than 16, 24 or 32,
\* whatever the source value.
C15_UnsupportedTargetAlwaysRaises ==
    /\ (Finished("convert_channels") /\ call.target_channels \notin {1, 2})
          => ret.raised = "ValueError"
    /\ (Finished("convert_bit_depth") /\ call.target_bits \notin {16, 24, 32})
          => ret.raised = "ValueError"

\* C15: convert_channels raises ValueError exactly when the target is
\* neither 1 nor 2 and differs from the source count, convert_bit_depth
\* exactly when the target is none of 16, 24, 32 and differs from the
\* source depth; with an unsupported target equal to the source either
\* method returns its input.
C15_UnsupportedTargetRaisesUnlessEqual ==
    /\ Finished("convert_channels") =>
          /\ ret.raised = "ValueError"
                <=> (call.target_channels \notin {1, 2} /\ call.target_channels # call.current_channels)
          /\ ret.raised \in {"None", "ValueError"}
          /\ (call.target_channels \notin {1, 2} /\ call.target_channels = call.current_channels)
                => ret.value = call.audio_data
    /\ Finished("convert_bit_depth") =>
          /\ ret.raised = "ValueError"
                <=> (call.target_bits \notin {16, 24, 32} /\ call.target_bits # call.current_bits)
          /\ ret.raised \in {"None", "ValueError"}
          /\ (call.target_bits \notin {16, 24, 32} /\ call.target_bits = call.current_bits)
                => ret.value = call.audio_data

\* A three-channel buffer converted to three channels came back unchanged.
C15_Witness ==
    /\ Finished("convert_channels")
    /\ call.current_channels = 3
    /\ call.target_channels = 3
    /\ ret.raised = "None"
    /\ ret.value = call.audio_data

\* ---------------------------------------------------------------- C16
\* C16: convert_channels with the target count equal to the source count
\* returns a buffer equal to its input, for every channel count.
C16_SameChannelCountIsIdentity ==
    (Finished("convert_channels") /\ call.target_channels = call.current_channels)
        => (ret.raised = "None" /\ ret.value = call.audio_data)

\* A stereo buffer of two frames converted to stereo.
C16_Witness ==
    /\ Returned("convert_channels")
    /\ call.current_channels = 2
    /\ call.target_channels = 2
    /\ Len(call.audio_data.data) = 2
    /\ ret.value = call.audio_data

\* ---------------------------------------------------------------- C17
\* a / b rounded to the nearest integer (a >= 0, b > 0; halves go up).
RoundDiv(a, b) == (2 * a + b) \div (2 * b)

\* C17: convert_sample_rate returns its input when the rates match;
\* otherwise the output has round(length * target_rate / current_rate)
\* frames, each with the channel count of the input.
C17_ResampledLengthIsRounded ==
    Returned("convert_sample_rate") =>
        IF call.current_rate = call.target_rate
        THEN ret.value = call.audio_data
        ELSE /\ Len(ret.value.data) = RoundDiv(Len(call.audio_data.data) * call.target_rate, call.current_rate)
             /\ \A f \in 1..Len(ret.value.data) : Len(ret.value.data[f]) = NumChannels(call.audio_data)

\* ---------------------------------------------------------------- C18
\* The three conversions applied one after the other to the call's buffer,
\* sample rate first, channels second, bit depth last.
RateThenChannelsThenBits(dither_sign) ==
    convert_bit_depth(
        convert_channels(
            convert_sample_rate(call.audio_data, call.current_rate, call.target_rate),
            call.current_channels, call.target_channels),
        call.current_bits, call.target_bits, call.dithering, dither_sign)

\* What each step leaves behind when it runs, and what a skipped step keeps.
StepsRunExactlyWhenDifferent ==
    LET out == ret.value
    IN /\ Len(out.data) = IF call.current_rate # call.target_rate
                          THEN (Len(call.audio_data.data) * call.target_rate) \div call.current_rate
                          ELSE Len(call.audio_data.data)
       /\ \A f \in 1..Len(out.data) :
             Len(out.data[f]) = IF call.current_channels # call.target_channels
                                THEN call.target_channels ELSE call.current_channels
       /\ call.current_bits # call.target_bits
             => out.dtype = (IF call.target_bits = 16 THEN "int16"
                             ELSE IF call.target_bits = 24 THEN "int32" ELSE "float32")
       /\ (call.current_rate = call.target_rate /\ call.current_channels = call.target_channels
             /\ call.current_bits = call.target_bits)
             => out = call.audio_data

\* C18: a convert_audio call that returns gives the buffer obtained by
\* converting the sample rate, then the channels, then the bit depth; each
\* step shows in the result exactly when its source and target values
\* differ; the call raises exactly when the channel or the bit-depth step
\* it runs is given an unsupported target; the caller's buffer is the same
\* after the call.
C18_RateChannelsBitsInOrder ==
    /\ [](Returned("convert_audio") =>
            /\ \E dither_sign \in {-1, 0, 1} : ret.value = RateThenChannelsThenBits(dither_sign)
            /\ StepsRunExactlyWhenDifferent)
    /\ [](Finished("convert_audio") =>
            (ret.raised = "ValueError" <=>
                \/ (call.current_channels # call.target_channels /\ call.target_channels \notin {1, 2})
                \/ (call.current_bits # call.target_bits /\ call.target_bits \notin {16, 24, 32})))
    /\ [][(call.op = "convert_audio" => call' = call)]_vars

\* A stereo float buffer of two frames went through all three steps.
C18_Witness ==
    /\ Returned("convert_audio")
    /\ call.current_rate = 96000 /\ call.target_rate = 48000
    /\ call.current_channels = 2 /\ call.target_channels = 1
    /\ call.current_bits = 32 /\ call.target_bits = 16
    /\ Len(call.audio_data.data) = 2
    /\ Len(ret.value.data) = 1
    /\ ret.value.dtype = "int16"

\* ---------------------------------------------------------------- C19
\* C19: is_power_of_two(n) is true exactly for n = 1, 2, 4, 8, ... (false
\* for n <= 0 and every other n); get_next_power_of_two(n) returns the
\* smallest power of two >= n for n > 0 and 1 for n <= 0.
C19_PowerOfTwoHelpers ==
    /\ Returned("is_power_of_two") => (ret.value <=> IsPowerOfTwo(call.n))
    /\ Returned("get_next_power_of_two") =>
          ret.value = (IF call.n <= 0 THEN 1 ELSE SmallestPowerOfTwoAtLeast(call.n))
    /\ Finished("is_power_of_two") \/ Finished("get_next_power_of_two") => ret.raised = "None"

\* get_next_power_of_two(5) returned 8.
C19_Witness ==
    /\ Returned("get_next_power_of_two")
    /\ call.n = 5
    /\ ret.value = 8

\* ---------------------------------------------------------------- C20
\* The suffixes load_audio_file accepts in this build, compared in lower case.
AcceptedSuffix(x) ==
    \/ x \in {SuffixWav, <<46, 87, 65, 86>>, SuffixAiff, SuffixFlac}
    \/ (LIBROSA_AVAILABLE /\ x = SuffixMp3)

\* C20: load_audio_file raises FileNotFoundError when the path does not
\* exist, whatever its suffix; ValueError when it exists and its suffix is
\* not accepted (.mp3 is not accepted without librosa); RuntimeError when
\* an accepted file fails to decode; otherwise it returns a 2-D buffer of
\* the file's frames, each frame with the file's channels, also for mono.
C20_LoadOutcomes ==
    Finished("load_audio_file") =>
        LET f == call.file_path
        IN IF ~f.exists THEN ret.raised = "FileNotFoundError"
           ELSE IF ~AcceptedSuffix(f.suffix) THEN ret.raised = "ValueError"
           ELSE IF ~f.decodes THEN ret.raised = "RuntimeError"
           ELSE /\ ret.raised = "None"
                /\ ret.value.audio_data.ndim = 2
                /\ Len(ret.value.audio_data.data) = f.length
                /\ \A i \in 1..f.length :
                      ret.value.audio_data.data[i] = [c \in 1..f.channels |-> FileSample(f.path, i, c)]
                /\ ret.value.channels = f.channels

\* A mono .wav file of two frames was loaded as a (2, 1) array.
C20_Witness ==
    /\ Returned("load_audio_file")
    /\ call.file_path.channels = 1
    /\ call.file_path.suffix = SuffixWav
    /\ call.file_path.length = 2
    /\ ret.value.audio_data.ndim = 2
    /\ ret.value.audio_data.data = << << FileSample(1, 1, 1) >>, << FileSample(1, 2, 1) >> >>

\* ---------------------------------------------------------------- C21
\* s contains, whatever the case of its letters, one of the markers.
HasMarker(markers, s) == \E i \in 1..Len(markers) : Contains(markers[i], lower(s))

\* The type a marked name gives: closed when it holds a closed marker.
MarkedType(s) == IF HasMarker(ClosedPatterns, s) THEN "closed" ELSE "open"

IsMarked(s) == HasMarker(ClosedPatterns, s) \/ HasMarker(OpenPatterns, s)

\* C21: is_hihat_file says hi-hat exactly when the parent directory name or
\* the filename contains, case-insensitively, a closed or an open marker;
\* when the parent directory name is marked the type is the parent's,
\* whatever the filename, otherwise it is the filename's; a path with
\* neither marked is regular, (False, None).
C21_HihatDetection ==
    Returned("is_hihat_file") =>
        LET parent == ParentName(call.path)
            name == PathName(call.path)
        IN /\ ret.value[1] = (IsMarked(parent) \/ IsMarked(name))
           /\ IsMarked(parent) => ret.value[2] = MarkedType(parent)
           /\ ~IsMarked(parent) /\ IsMarked(name) => ret.value[2] = MarkedType(name)
           /\ ~IsMarked(parent) /\ ~IsMarked(name) => ret.value = << FALSE, "None" >>

\* 'OPN kit/ClosedHH XOR 1.wav' is an open hi-hat: the directory decides.
C21_Witness ==
    /\ Returned("is_hihat_file")
    /\ call.path = << <<79, 80, 78, 32, 107, 105, 116>>, <<67, 108, 111, 115, 101, 100, 72, 72, 32, 88, 79, 82, 32, 49, 46, 119, 97, 118>> >>
    /\ ret.value = << TRUE, "open" >>

\* ---------------------------------------------------------------- C22
\* The places of s where a word starts, and where the word starting at i ends.
WordStarts(s) == {i \in 1..Len(s) : ~IsSeparator(s[i]) /\ (i = 1 \/ IsSeparator(s[i - 1]))}

WordEnd(s, i) == Max({j \in i..Len(s) : \A k \in i..j : ~IsSeparator(s[k])})

\* The tokens of s: its words in order, with an empty token before a
\* leading and after a trailing run of separators.
Tokens(s) ==
    LET starts == WordStarts(s)
        NthStart(k) == CHOOSE i \in starts : Cardinality({j \in starts : j < i}) = k - 1
        inner == [k \in 1..Cardinality(starts) |-> SubSeq(s, NthStart(k), WordEnd(s, NthStart(k)))]
        edge(i) == IF s # <<>> /\ IsSeparator(s[i]) THEN << <<>> >> ELSE <<>>
    IN IF s = <<>> THEN << <<>> >> ELSE edge(1) \o inner \o edge(Len(s))

IsTypeMarker(token) == lower(token) \in SkipWords

C22_WitnessFallback ==
    /\ Returned("extract_base_name")
    /\ PathName(call.path) = <<79, 112, 101, 110, 72, 72, 46, 119, 97, 118>>
    /\ ret.value = <<79, 112, 101, 110, 72, 72>>

\* ---------------------------------------------------------------- C24
\* The filename the claim derives from metadata holding group_key,
\* sample_count and sample_duration.
FilenameOfMetadata(metadata) ==
    ReplaceChar(metadata.group_key, 47, 45) \o << 45 >> \o IntToStr(metadata.sample_count)
    \o << 45 >> \o FormatThreeDecimals(metadata.sample_duration) \o << 115 >>

\* C24: the generated filename is the metadata's group key with '/'
\* replaced by '-', its sample count and its per-slot duration with three
\* decimals: group_key 'drums/kick', sample_count 16, sample_duration 1.5
\* gives 'drums-kick-16-1.500s', and 'hihat', 8, 0.5 gives 'hihat-8-0.500s'.
C24_FilenameFromGroupKey ==
    Returned("_generate_filename") /\ "metadata" \in DOMAIN call.chain_data
    /\ "group_key" \in DOMAIN call.chain_data.metadata
    => ret.value = FilenameOfMetadata(call.chain_data.metadata)

\* ---------------------------------------------------------------- C23
\* The chain the plan holds under `name` came from the hi-hat grouping, or
\* from the directory grouping, whose chains replace hi-hat chains of the
\* same name.
FromDirectoryGrouping(name) == name \in DictKeys(regular_chains)

FromHihatGrouping(name) == name \in DictKeys(hihat_chains) /\ ~FromDirectoryGrouping(name)

\* C23: every chain of a plan has type 'hihat' exactly when the hi-hat
\* grouping produced it and 'regular' exactly when the directory grouping
\* produced it, whatever the directory names; every chain of type 'hihat'
\* carries closed_count, open_count and hat_names.
C23_TypeTellsOrigin ==
    Planned =>
        \A name \in ChainNames :
            LET metadata == DictGet(all_chains, name).metadata
            IN /\ metadata.type = "hihat" <=> FromHihatGrouping(name)
               /\ metadata.type = "regular" <=> FromDirectoryGrouping(name)
               /\ metadata.type = "hihat" => {"closed_count", "open_count", "hat_names"} \subseteq DOMAIN metadata

\* ---------------------------------------------------------------- C25
RECURSIVE FilesInChainOrder(_)
\* The file lists of a dictionary of chains, one after the other.
FilesInChainOrder(chains) ==
    IF chains = <<>> THEN <<>>
    ELSE chains[1].value.files \o FilesInChainOrder(Tail(chains))

\* The hi-hat files of the input, and those of one base name.
HihatInputSet == {plan_input[i] : i \in {j \in 1..Len(plan_input) : IsHihatPath(plan_input[j])}}

GroupSize(base_name) == Cardinality({p \in HihatInputSet : extract_base_name(p) = base_name})

\* a comes before b in the packing order: by base name, then closed before
\* open, then by path.
PackedBefore(a, b) ==
    LET base_a == extract_base_name(a)
        base_b == extract_base_name(b)
        type_a == is_hihat_file(a)[2]
        type_b == is_hihat_file(b)[2]
    IN IF base_a # base_b THEN SeqLess(base_a, base_b)
       ELSE IF type_a # type_b THEN type_a = "closed"
       ELSE PathLess(a, b)

\* The hi-hat chains hold every hi-hat file once, in packing order.
PackedInOrder ==
    LET packed == FilesInChainOrder(hihat_chains)
    IN /\ Len(packed) = Cardinality(HihatInputSet)
       /\ {packed[i] : i \in 1..Len(packed)} = HihatInputSet
       /\ \A i, j \in 1..Len(packed) : i < j => PackedBefore(packed[i], packed[j])

\* A group is never cut, joins the current chain when it fits, and a new
\* chain starts with it when the current chain is not empty and it does not.
ChainsStartWhenFull ==
    \A n \in 1..Len(hihat_chains) :
        LET files == hihat_chains[n].value.files
        IN \A i \in 1..Len(files) :
              LET size == GroupSize(extract_base_name(files[i]))
                  starts_group == i = 1 \/ extract_base_name(files[i]) # extract_base_name(files[i - 1])
              IN starts_group =>
                    /\ i + size - 1 <= Len(files)
                    /\ i > 1 => (i - 1) + size <= plan_cap
                    /\ i = 1 /\ n > 1 => Len(hihat_chains[n - 1].value.files) + size > plan_cap

\* C25: _create_combined_hihat_chains takes the groups in lexicographic
\* base-name order, each giving its closed files (sorted) then its open
\* files (sorted); a new chain starts exactly when the current chain is not
\* empty and its size plus the group's exceeds max_samples_per_chain; the
\* chains are named hats_1 .. hats_k without gaps and none is empty.
C25_HihatPacking ==
    Planned =>
        /\ PackedInOrder
        /\ ChainsStartWhenFull
        /\ \A n \in 1..Len(hihat_chains) :
              /\ hihat_chains[n].key = HatsName(n)
              /\ hihat_chains[n].value.files # <<>>

\* Three one-file groups under a cap of two: the first two share hats_1,
\* the third starts hats_2.
C25_Witness ==
    /\ Planned
    /\ plan_cap = 2
    /\ Len(hihat_chains) = 2
    /\ Len(hihat_chains[1].value.metadata.hat_names) = 2
    /\ Len(hihat_chains[2].value.files) = 1

\* ---------------------------------------------------------------- C26
\* The places (chain, position) of the plan that hold the path.
PlacesOf(path) ==
    {pl \in {<< n, i >> : n \in 1..Len(all_chains), i \in 1..MaxInput} :
        /\ pl[2] <= Len(all_chains[pl[1]].value.files)
        /\ all_chains[pl[1]].value.files[pl[2]] = path}

\* C26: for a list of distinct paths the plan is a partition of the input:
\* every input path is in exactly one chain, once, and the chains hold
\* nothing else, also when hi-hat chain names, directory keys and split
\* chain names coincide.
C26_PlanIsPartition ==
    Planned =>
        /\ \A k \in 1..Len(plan_input) : Cardinality(PlacesOf(plan_input[k])) = 1
        /\ \A n \in 1..Len(all_chains) : \A i \in 1..Len(all_chains[n].value.files) :
              \E k \in 1..Len(plan_input) : plan_input[k] = all_chains[n].value.files[i]

\* ---------------------------------------------------------------- C27
\* What the claim compares of one chain: its name, its ordered file list,
\* its sample_count and, where present, closed_count, open_count, hat_names.
ChainSummary(item) ==
    LET metadata == item.value.metadata
        Field(f) == IF f \in DOMAIN metadata THEN << metadata[f] >> ELSE <<>>
    IN << item.key, item.value.files, metadata.sample_count,
          Field("closed_count"), Field("open_count"), Field("hat_names") >>

\* A plan as a mapping: the summaries of its chains, whatever their order.
PlanSummary(chains) == {ChainSummary(chains[n]) : n \in 1..Len(chains)}

\* C27: the plan does not depend on the order of the input list: the same
\* paths in another order give the same chain names with the same ordered
\* file lists, sample_count, closed_count, open_count and hat_names.
C27_PlanIgnoresInputOrder ==
    Planned => PlanSummary(all_chains) = PlanSummary(plan_smart_chains(Reversed(plan_input), plan_cap))

\* ---------------------------------------------------------------- C29
\* The number of the chain's files that is_hihat_file gives the type.
CountOfType(files, hihat_type) ==
    Cardinality({i \in 1..Len(files) : is_hihat_file(files[i]) = << TRUE, hihat_type >>})

\* names lists the base names of the files once each, in ascending order.
ListsBaseNames(names, files) ==
    /\ {names[i] : i \in 1..Len(names)} = {extract_base_name(files[i]) : i \in 1..Len(files)}
    /\ \A i, j \in 1..Len(names) : i < j => SeqLess(names[i], names[j])

\* C29: for every chain of the plan made by the hi-hat grouping,
\* closed_count + open_count = total_files = sample_count = len(files),
\* closed_count and open_count are the numbers of its files detected as
\* closed and as open, and hat_names lists its base names once each in
\* lexicographic order; for every chain made by the directory grouping,
\* total_files = sample_count = len(files).
C29_CountsMatchFiles ==
    Planned =>
        \A name \in ChainNames :
            LET files == DictGet(all_chains, name).files
                metadata == DictGet(all_chains, name).metadata
            IN /\ FromHihatGrouping(name) =>
                    /\ metadata.closed_count + metadata.open_count = metadata.total_files
                    /\ metadata.total_files = metadata.sample_count
                    /\ metadata.sample_count = Len(files)
                    /\ metadata.closed_count = CountOfType(files, "closed")
                    /\ metadata.open_count = CountOfType(files, "open")
                    /\ ListsBaseNames(metadata.hat_names, files)
               /\ FromDirectoryGrouping(name) =>
                    /\ metadata.total_files = metadata.sample_count
                    /\ metadata.sample_count = Len(files)

\* A plan with a hi-hat chain of one closed and one open file under two
\* base names, and a directory chain beside it.
C29_Witness ==
    /\ Planned
    /\ \E name \in ChainNames :
          /\ FromHihatGrouping(name)
          /\ DictGet(all_chains, name).metadata.closed_count = 1
          /\ DictGet(all_chains, name).metadata.open_count = 1
          /\ Len(DictGet(all_chains, name).metadata.hat_names) = 2
    /\ \E name \in ChainNames : FromDirectoryGrouping(name)

\* ---------------------------------------------------------------- C30
\* Slot i (from 1) of the returned audio_data: sample_length frames.
SlotOfChain(i) ==
    SubSeq(result.audio_data.data, (i - 1) * result.sample_length + 1, i * result.sample_length)

\* The slot the build makes of one file: loaded, brought to the chain's
\* rate and slot length, converted to the output format.
SlotMadeOf(fp, dither_sign) ==
    LET loaded == _load_audio_files(<< fp >>)[1]
        normalized == NormalizeOne(loaded, target_length, config.target_sample_rate)
    IN _convert_samples_to_target_format(<< normalized >>, config, dither_sign)[1]

\* The frames hold the audio of the file: the file loads and the frames are
\* the slot made of it.
HoldsAudioOf(frames, fp) ==
    /\ ~load_audio_file_raises(fp)
    /\ \E dither_sign \in DitherOutcomes : frames = SlotMadeOf(fp, dither_sign).data

\* The slots that are not padding: one per loaded file, up to the slot count.
NonPaddingSlots == Min2(Len(audio_files), result.sample_count)

\* C30: in a built chain's metadata original_files is the input list,
\* unchanged and in order, and lines up with the slots: for every i below
\* both the number of listed files and sample_count, slot i holds the audio
\* of original_files[i], and the number of slots that are not padding is
\* the number of listed files, also when files fail to load or the cap
\* truncates the slot list.
C30_OriginalFilesLineUpWithSlots ==
    pc = "Built" =>
        /\ result.metadata.original_files = PathIds(file_paths)
        /\ \A i \in 1..Min2(Len(file_paths), result.sample_count) :
              HoldsAudioOf(SlotOfChain(i), file_paths[i])
        /\ NonPaddingSlots = Len(result.metadata.original_files)

\* ---------------------------------------------------------------- C28
\* A chain built from a plan entry.
BuiltFromPlan == plan_pc = "planned" /\ pc = "Built"

\* C28: with planner and builder holding the same max_samples_per_chain
\* and every file loading, each file of a plan entry has its slot in the
\* chain built from the entry: the builder does not truncate the planned
\* chain, and slot i holds the audio of the entry's i-th file.
C28_PlannedFilesFillSlots ==
    BuiltFromPlan =>
        /\ result.sample_count >= Len(file_paths)
        /\ \A i \in 1..Len(file_paths) : HoldsAudioOf(SlotOfChain(i), file_paths[i])

====
